---------------------------- MODULE Spec2Model ----------------------------
(* Verification model of gpt-play-pokemon-firered's memory bridge:          *)
(*   - memory/reader.py   : LiveMemoryReader and SnapshotMemoryReader       *)
(*   - mgba_client.py     : socket client, lazy singleton, read helpers     *)
(*   - ui/dialog.py       : get_dialog_state classifier chain               *)
(* Each part has its own specification over the shared variables.          *)
EXTENDS Integers, Naturals, Sequences, FiniteSets, TLC

VARIABLES
    segments,   \* SnapshotMemoryReader.segments (sorted tuple of segments)
    rdKind,     \* last read issued on both readers: none/u8/u16/u32/bytes
    rdAddr,     \* its address
    rdSize,     \* its size in bytes
    snapRes,    \* outcome of the read on SnapshotMemoryReader
    liveRes,    \* outcome of the read on LiveMemoryReader
    SOCKET_CLIENT, \* mgba_client._SOCKET_CLIENT: 0 is None, else a client id
    clients,    \* the _MGBASocketClient objects created so far
    threads,    \* per thread: position inside mgba_read8 and its locals
    mem,        \* emulator memory as the dialog classifier sees it
    snapshot,   \* the snapshot argument of the last get_dialog_state call
    net,        \* state of the bridge during that call
    result,     \* what that call returned or raised
    MGBA_METRICS, \* memory/mgba.py _MGBA_METRICS: its value in each query's context
    tokens,     \* per query: the tokens held by its open _mgba_metrics_context
    metrics,    \* the MgbaReadMetrics objects created so far
    scopes,     \* per query: the scopes it has entered and not yet left
    issued,     \* per scope: the reads its query issued while inside it
    bulkCall,   \* a ranged read of mgba_client.py: its arguments and the bridge
    bulkOut,    \* what that read returned or raised
    matchCall,  \* a call of a task-matching helper: the task table, the candidates
    matchOut,   \* what the helper returned
    listCall,   \* a call of a list detector: the values it reads from memory
    listOut,    \* what the detector reports of the list
    battleCall, \* the inputs of one battle-menu detection
    battleOut,  \* what the battle step of get_dialog_state returned
    textCall,   \* the inputs of one text decoding call
    textOut,    \* what the call returned
    scanCall,   \* the text printers and buffers of one scan
    scanOut,    \* what find_active_textprinter_text returned
    bytesCall,  \* the slice and offset of one u8/u16le/u32le call
    bytesOut,   \* what the call returned
    fogFile,    \* the stored fog-of-war file of the map, and its backup
    fogOut,     \* the last fog-of-war call and what it returned
    derefCall,  \* the detector call whose pointer is followed
    derefOut,   \* its result and the reads issued at the pointer
    choiceCall, \* the choice-menu detector call
    choiceOut,  \* the record it returns
    rangeCall,  \* the ranged read that was called
    rangeRun    \* its position, its socket requests and the HTTP chunks received

readerVars == <<segments, rdKind, rdAddr, rdSize, snapRes, liveRes>>

sockVars == <<SOCKET_CLIENT, clients, threads>>

dialogVars == <<mem, snapshot, net, result>>

metricsVars == <<MGBA_METRICS, tokens, metrics, scopes, issued>>

(* The variables of the parts added after the first three, and their      *)
(* values while another part's specification runs.                         *)
bulkVars == <<bulkCall, bulkOut>>

matchVars == <<matchCall, matchOut>>

listVars == <<listCall, listOut>>

battleVars == <<battleCall, battleOut>>

textVars == <<textCall, textOut>>

scanVars == <<scanCall, scanOut>>

bytesVars == <<bytesCall, bytesOut>>

fogVars == <<fogFile, fogOut>>

derefVars == <<derefCall, derefOut>>

choiceVars == <<choiceCall, choiceOut>>

rangeVars == <<rangeCall, rangeRun>>

extVars == <<metricsVars, bulkVars, matchVars, listVars, battleVars, textVars, scanVars, bytesVars, fogVars, derefVars, choiceVars, rangeVars>>

MetricsRest ==
    /\ MGBA_METRICS = <<>>
    /\ tokens = <<>>
    /\ metrics = <<>>
    /\ scopes = <<>>
    /\ issued = <<>>

BulkRest ==
    /\ bulkCall = <<>>
    /\ bulkOut = <<>>

MatchRest ==
    /\ matchCall = <<>>
    /\ matchOut = <<>>

ListRest ==
    /\ listCall = <<>>
    /\ listOut = <<>>

BattleRest ==
    /\ battleCall = <<>>
    /\ battleOut = <<>>

TextRest ==
    /\ textCall = <<>>
    /\ textOut = <<>>

ScanRest ==
    /\ scanCall = <<>>
    /\ scanOut = <<>>

BytesRest ==
    /\ bytesCall = <<>>
    /\ bytesOut = <<>>

FogRest ==
    /\ fogFile = <<>>
    /\ fogOut = <<>>

DerefRest ==
    /\ derefCall = <<>>
    /\ derefOut = <<>>

ChoiceRest ==
    /\ choiceCall = <<>>
    /\ choiceOut = <<>>

RangeRest ==
    /\ rangeCall = <<>>
    /\ rangeRun = <<>>

ExtRest == MetricsRest /\ BulkRest /\ MatchRest /\ ListRest /\ BattleRest /\ TextRest /\ ScanRest /\ BytesRest /\ FogRest /\ DerefRest /\ ChoiceRest /\ RangeRest

(* The three first parts at rest *)
CoreRest ==
    /\ segments = <<>>
    /\ rdKind = "none"
    /\ rdAddr = 0
    /\ rdSize = 0
    /\ snapRes = [ok |-> FALSE, val |-> <<>>, err |-> "noread"]
    /\ liveRes = [ok |-> FALSE, val |-> <<>>, err |-> "noread"]
    /\ SOCKET_CLIENT = 0
    /\ clients = <<>>
    /\ threads = <<>>
    /\ mem = <<>>
    /\ snapshot = "none"
    /\ net = "ok"
    /\ result = <<>>

coreVars == <<readerVars, sockVars, dialogVars>>

metricsFrame == <<coreVars, bulkVars, matchVars, listVars, battleVars, textVars, scanVars, bytesVars, fogVars, derefVars, choiceVars, rangeVars>>

bulkFrame == <<coreVars, metricsVars, matchVars, listVars, battleVars, textVars, scanVars, bytesVars, fogVars, derefVars, choiceVars, rangeVars>>

matchFrame == <<coreVars, metricsVars, bulkVars, listVars, battleVars, textVars, scanVars, bytesVars, fogVars, derefVars, choiceVars, rangeVars>>

listFrame == <<coreVars, metricsVars, bulkVars, matchVars, battleVars, textVars, scanVars, bytesVars, fogVars, derefVars, choiceVars, rangeVars>>

battleFrame == <<coreVars, metricsVars, bulkVars, matchVars, listVars, textVars, scanVars, bytesVars, fogVars, derefVars, choiceVars, rangeVars>>

textFrame == <<coreVars, metricsVars, bulkVars, matchVars, listVars, battleVars, scanVars, bytesVars, fogVars, derefVars, choiceVars, rangeVars>>

scanFrame == <<coreVars, metricsVars, bulkVars, matchVars, listVars, battleVars, textVars, bytesVars, fogVars, derefVars, choiceVars, rangeVars>>

bytesFrame == <<coreVars, metricsVars, bulkVars, matchVars, listVars, battleVars, textVars, scanVars, fogVars, derefVars, choiceVars, rangeVars>>

fogFrame == <<coreVars, metricsVars, bulkVars, matchVars, listVars, battleVars, textVars, scanVars, bytesVars, derefVars, choiceVars, rangeVars>>

derefFrame == <<coreVars, metricsVars, bulkVars, matchVars, listVars, battleVars, textVars, scanVars, bytesVars, fogVars, choiceVars, rangeVars>>

choiceFrame == <<coreVars, metricsVars, bulkVars, matchVars, listVars, battleVars, textVars, scanVars, bytesVars, fogVars, derefVars, rangeVars>>

rangeFrame == <<coreVars, metricsVars, bulkVars, matchVars, listVars, battleVars, textVars, scanVars, bytesVars, fogVars, derefVars, choiceVars>>

vars == <<readerVars, sockVars, dialogVars, extVars>>

-----------------------------------------------------------------------------
(* Bounds of the reader model *)
MaxAddr == 4       \* addresses 0..MaxAddr are used as range starts
MaxSize == 4       \* range lengths / read_bytes sizes 0..MaxSize
MaxRanges == 2     \* number of (addr, len) ranges handed to from_ranges

(* Bound of the socket model *)
NumThreads == 2    \* threads of the process issuing reads

(* Bound of the dialog model: how many signals (a foreign callback2, an    *)
(* active task, a raised flag) the memory holds beyond the idle overworld  *)
MaxSignals == 2

-----------------------------------------------------------------------------
(* Underlying emulator memory, as served by the bridge's read callables *)
read8(a) == (a * 37 + 11) % 256

(* A 16/32-bit value is kept as its base-256 digits, least significant     *)
(* first: d[0] | d[1] << 8 | d[2] << 16 | d[3] << 24 is one-to-one with    *)
(* the digit tuple, and 2^32 does not fit the checker's integers.          *)
read16(a) == <<read8(a), read8(a + 1)>>

read32(a) == <<read8(a), read8(a + 1), read8(a + 2), read8(a + 3)>>

read_range_bytes(a, n) == [i \in 1..n |-> read8(a + i - 1)]

(* Outcome of one read: the value (digits of uN, bytes of read_bytes) or   *)
(* the exception raised.                                                   *)
Ok(v) == [ok |-> TRUE, val |-> v, err |-> "none"]

Raise(e) == [ok |-> FALSE, val |-> <<>>, err |-> e]

NoRead == [ok |-> FALSE, val |-> <<>>, err |-> "noread"]

(* x & 0xFF.. on a digit tuple keeps the low n digits *)
MaskDigits(d, n) == SubSeq(d, 1, n)

(* LiveMemoryReader *)
LiveU8(a) == Ok(<<read8(a) % 256>>)

LiveU16(a) == Ok(MaskDigits(read16(a), 2))

LiveU32(a) == Ok(MaskDigits(read32(a), 4))

LiveReadBytes(a, n) ==
    IF n <= 0 THEN Ok(<<>>) ELSE Ok(read_range_bytes(a, n))

-----------------------------------------------------------------------------
(* SnapshotSegment: start and data; end = start + len(data) *)
SnapshotSegment(start, data) == [start |-> start, data |-> data]

SegEnd(seg) == seg.start + Len(seg.data)

(* list.sort(key=start): stable insertion by start address *)
RECURSIVE InsertByStart(_, _)
InsertByStart(seg, sorted) ==
    IF sorted = <<>> THEN <<seg>>
    ELSE IF Head(sorted).start <= seg.start
         THEN <<Head(sorted)>> \o InsertByStart(seg, Tail(sorted))
         ELSE <<seg>> \o sorted

RECURSIVE SortByStart(_)
SortByStart(segs) ==
    IF segs = <<>> THEN <<>>
    ELSE InsertByStart(segs[Len(segs)], SortByStart(SubSeq(segs, 1, Len(segs) - 1)))

(* from_ranges: pair ranges with chunks, drop zero addresses, sort *)
RECURSIVE KeepNonZero(_)
KeepNonZero(pairs) ==
    IF pairs = <<>> THEN <<>>
    ELSE IF Head(pairs).start # 0
         THEN <<Head(pairs)>> \o KeepNonZero(Tail(pairs))
         ELSE KeepNonZero(Tail(pairs))

from_ranges(ranges) ==
    SortByStart(KeepNonZero(
        [i \in 1..Len(ranges) |->
            SnapshotSegment(ranges[i][1],
                            read_range_bytes(ranges[i][1], ranges[i][2]))]))

(* bisect.bisect_right(starts, addr): number of starts <= addr in a sorted list *)
bisect_right(segs, addr) == Cardinality({i \in 1..Len(segs) : segs[i].start <= addr})

(* the range check of _segment_for on the selected segment *)
SegmentFitsStartOnly(seg, addr, size) ==
    ~ (addr - seg.start < 0 \/ addr >= SegEnd(seg))

SegmentFits(seg, addr, size) ==
    ~ (addr - seg.start < 0 \/ addr + size > SegEnd(seg))

(* _segment_for: index (1-based) of the selected segment, or 0 on KeyError *)
segment_for(segs, addr, size) ==
    IF size <= 0 THEN 0
    ELSE LET i == bisect_right(segs, addr)
         IN IF i < 1 \/ i > Len(segs) THEN 0
            ELSE IF SegmentFits(segs[i], addr, size) THEN i ELSE 0

(* bytes slicing data[off : off + n] (truncating, 0-based off) *)
Slice(data, off, n) ==
    SubSeq(data, off + 1, IF off + n <= Len(data) THEN off + n ELSE Len(data))

(* d[off] | d[off+1] << 8 | ... as digits; IndexError past the data *)
LittleEndian(data, off, n) ==
    IF off + n > Len(data) THEN Raise("IndexError")
    ELSE Ok([k \in 1..n |-> data[off + k]])

SnapU(segs, addr, n) ==
    LET i == segment_for(segs, addr, n)
    IN IF i = 0 THEN Raise("KeyError")
       ELSE LittleEndian(segs[i].data, addr - segs[i].start, n)

SnapU8(segs, addr) == SnapU(segs, addr, 1)

SnapU16(segs, addr) == SnapU(segs, addr, 2)

SnapU32(segs, addr) == SnapU(segs, addr, 4)

SnapReadBytes(segs, addr, size) ==
    LET i == segment_for(segs, addr, size)
    IN IF i = 0 THEN Raise("KeyError")
       ELSE Ok(Slice(segs[i].data, addr - segs[i].start, size))

-----------------------------------------------------------------------------
(* Reader specification: a snapshot reader (a frozen dataclass) is built   *)
(* by from_ranges from a list of ranges; then the same read is issued on   *)
(* the snapshot reader and on a live reader over the same memory.          *)
RangeSet == (0..MaxAddr) \X (0..MaxSize)

RangeLists == UNION {[1..n -> RangeSet] : n \in 0..MaxRanges}

ReaderInit ==
    /\ ExtRest
    /\ segments \in {from_ranges(ranges) : ranges \in RangeLists}
    /\ rdKind = "none"
    /\ rdAddr = 0
    /\ rdSize = 0
    /\ snapRes = NoRead
    /\ liveRes = NoRead
    /\ SOCKET_CLIENT = 0
    /\ clients = <<>>
    /\ threads = <<>>
    /\ mem = <<>>
    /\ snapshot = "none"
    /\ net = "ok"
    /\ result = <<>>

ReadU8 ==
    \E a \in 0..(MaxAddr + MaxSize) :
        /\ rdKind' = "u8" /\ rdAddr' = a /\ rdSize' = 1
        /\ snapRes' = SnapU8(segments, a)
        /\ liveRes' = LiveU8(a)
        /\ UNCHANGED <<segments, sockVars, dialogVars, extVars>>

ReadU16 ==
    \E a \in 0..(MaxAddr + MaxSize) :
        /\ rdKind' = "u16" /\ rdAddr' = a /\ rdSize' = 2
        /\ snapRes' = SnapU16(segments, a)
        /\ liveRes' = LiveU16(a)
        /\ UNCHANGED <<segments, sockVars, dialogVars, extVars>>

ReadU32 ==
    \E a \in 0..(MaxAddr + MaxSize) :
        /\ rdKind' = "u32" /\ rdAddr' = a /\ rdSize' = 4
        /\ snapRes' = SnapU32(segments, a)
        /\ liveRes' = LiveU32(a)
        /\ UNCHANGED <<segments, sockVars, dialogVars, extVars>>

ReadBytes ==
    \E a \in 0..(MaxAddr + MaxSize), n \in 0..MaxSize :
        /\ rdKind' = "bytes" /\ rdAddr' = a /\ rdSize' = n
        /\ snapRes' = SnapReadBytes(segments, a, n)
        /\ liveRes' = LiveReadBytes(a, n)
        /\ UNCHANGED <<segments, sockVars, dialogVars, extVars>>

ReaderNext == ReadU8 \/ ReadU16 \/ ReadU32 \/ ReadBytes

SpecReader == ReaderInit /\ [][ReaderNext]_vars

-----------------------------------------------------------------------------
(* Properties of the readers *)

(* segment i holds the whole range [addr, addr+size) *)
SegmentHolds(i, addr, size) ==
    segments[i].start <= addr /\ addr + size <= SegEnd(segments[i])

InOneSegment(addr, size) == \E i \in 1..Len(segments) : SegmentHolds(i, addr, size)

(* C7: for any address and length (at least one byte) wholly contained in  *)
(* a captured segment, the snapshot reader returns exactly what the live   *)
(* reader returns for the same address over the same bytes.                *)
C7_SnapshotEqualsLive ==
    (rdKind # "none" /\ rdSize >= 1 /\ InOneSegment(rdAddr, rdSize))
        => snapRes = liveRes

(* C8: a snapshot read succeeds only if [addr, addr+len) lies inside one   *)
(* captured segment, and then returns exactly that segment's bytes at the  *)
(* offsets of the range; a read that no single segment holds (before all   *)
(* segments, in a gap, across a segment's end) fails with KeyError.        *)
C8_ReadInsideOneSegment ==
    rdKind # "none" =>
        /\ snapRes.ok =>
              \E i \in 1..Len(segments) :
                  /\ SegmentHolds(i, rdAddr, rdSize)
                  /\ snapRes.val =
                        [k \in 1..rdSize |-> segments[i].data[rdAddr - segments[i].start + k]]
        /\ ~ InOneSegment(rdAddr, rdSize) =>
              (~ snapRes.ok /\ snapRes.err = "KeyError")

(* a read_bytes that starts inside a segment and crosses its end was refused *)
C8_Witness ==
    /\ rdKind = "bytes"
    /\ ~ snapRes.ok
    /\ ~ InOneSegment(rdAddr, rdSize)
    /\ \E i \in 1..Len(segments) :
          /\ segments[i].start <= rdAddr
          /\ rdAddr < SegEnd(segments[i])
          /\ rdAddr + rdSize > SegEnd(segments[i])

-----------------------------------------------------------------------------
(* mgba_client.py: socket client, lazy singleton and mgba_read8            *)
Threads == 1..NumThreads

(* _MGBASocketClient.__init__ *)
NewClient == [sock |-> "none", buffer |-> <<>>, lock |-> 0, pending |-> <<>>]

IdleThread ==
    [pc |-> "idle", cli |-> 0, attempt |-> 0, depth |-> 0, tries |-> 0,
     faults |-> 0, resp |-> 0, outcome |-> "none", via |-> "none"]

SockInit ==
    /\ ExtRest
    /\ SOCKET_CLIENT = 0
    /\ clients = <<>>
    /\ threads = [t \in Threads |-> IdleThread]
    /\ segments = <<>>
    /\ rdKind = "none"
    /\ rdAddr = 0
    /\ rdSize = 0
    /\ snapRes = NoRead
    /\ liveRes = NoRead
    /\ mem = <<>>
    /\ snapshot = "none"
    /\ net = "ok"
    /\ result = <<>>

SetThread(t, r) == threads' = [threads EXCEPT ![t] = r]

(* _MGBASocketClient.close: socket dropped, receive buffer cleared; the    *)
(* requests outstanding on the dropped connection die with it.             *)
close(c) == [c EXCEPT !.sock = "none", !.buffer = <<>>, !.pending = <<>>]

(* a thread enters mgba_read8 *)
CallRead8(t) ==
    /\ threads[t].pc = "idle"
    /\ SetThread(t, [IdleThread EXCEPT !.pc = "check"])
    /\ UNCHANGED <<SOCKET_CLIENT, clients, readerVars, dialogVars, extVars>>

(* _socket_client: the test `_SOCKET_CLIENT is None` *)
CheckClient(t) ==
    /\ threads[t].pc = "check"
    /\ SetThread(t, [threads[t] EXCEPT
                        !.pc = IF SOCKET_CLIENT = 0 THEN "create" ELSE "return"])
    /\ UNCHANGED <<SOCKET_CLIENT, clients, readerVars, dialogVars, extVars>>

(* _socket_client: `_SOCKET_CLIENT = _MGBASocketClient(...)` *)
CreateClient(t) ==
    /\ threads[t].pc = "create"
    /\ clients' = Append(clients, NewClient)
    /\ SOCKET_CLIENT' = Len(clients) + 1
    /\ SetThread(t, [threads[t] EXCEPT !.pc = "return"])
    /\ UNCHANGED <<readerVars, dialogVars, extVars>>

(* _socket_client: `return _SOCKET_CLIENT` *)
ReturnClient(t) ==
    /\ threads[t].pc = "return"
    /\ SetThread(t, [threads[t] EXCEPT !.pc = "lock", !.cli = SOCKET_CLIENT])
    /\ UNCHANGED <<SOCKET_CLIENT, clients, readerVars, dialogVars, extVars>>

(* request: `with self._lock:` and the first iteration of the loop *)
Acquire(t) ==
    LET c == threads[t].cli IN
    /\ threads[t].pc = "lock"
    /\ clients[c].lock = 0
    /\ clients' = [clients EXCEPT ![c].lock = t]
    /\ SetThread(t, [threads[t] EXCEPT !.pc = "connect", !.attempt = 0,
                                        !.tries = @ + 1])
    /\ UNCHANGED <<SOCKET_CLIENT, readerVars, dialogVars, extVars>>

(* request: the except clause, close() then retry or re-raise; a fault     *)
(* that leaves request() is caught by mgba_read8/16 only when it is a      *)
(* ConnectionError.                                                        *)
Faulted(t, exc) ==
    LET c == threads[t].cli
        th == [threads[t] EXCEPT !.faults = @ + 1]
    IN IF threads[t].attempt = 1
       THEN /\ clients' = [clients EXCEPT ![c] = [close(clients[c]) EXCEPT !.lock = 0]]
            /\ SetThread(t, IF exc = "ConnectionError"
                            THEN [th EXCEPT !.pc = "http"]
                            ELSE [th EXCEPT !.pc = "done", !.outcome = "raised"])
       ELSE /\ clients' = [clients EXCEPT ![c] = close(clients[c])]
            /\ SetThread(t, [th EXCEPT !.pc = "connect", !.attempt = 1,
                                       !.tries = @ + 1])

(* _connect: no-op on an open socket; else every port is tried and the     *)
(* failure of all of them is a ConnectionError.                            *)
Connect(t) ==
    LET c == threads[t].cli IN
    /\ threads[t].pc = "connect"
    /\ UNCHANGED <<SOCKET_CLIENT, readerVars, dialogVars, extVars>>
    /\ IF clients[c].sock # "none"
       THEN /\ SetThread(t, [threads[t] EXCEPT !.pc = "send"])
            /\ UNCHANGED clients
       ELSE \E reachable \in BOOLEAN :
              IF reachable
              THEN /\ clients' = [clients EXCEPT ![c].sock = "open"]
                   /\ SetThread(t, [threads[t] EXCEPT !.pc = "send"])
              ELSE Faulted(t, "ConnectionError")

(* _send: sendall of the request, or a fault of the socket *)
Send(t) ==
    LET c == threads[t].cli IN
    /\ threads[t].pc = "send"
    /\ UNCHANGED <<SOCKET_CLIENT, readerVars, dialogVars, extVars>>
    /\ \E io \in {"ok", "ConnectionError", "OSError"} :
          IF io = "ok"
          THEN /\ clients' = [clients EXCEPT ![c].pending = Append(@, t)]
               /\ SetThread(t, [threads[t] EXCEPT !.pc = "recv"])
          ELSE Faulted(t, io)

(* _recv_until_marker: the bridge answers the outstanding requests of the  *)
(* connection in order; the first message of the buffer is returned, the   *)
(* lock is released and mgba_read8 returns the value.                      *)
Recv(t) ==
    LET c == threads[t].cli
        buf == clients[c].buffer \o clients[c].pending
    IN
    /\ threads[t].pc = "recv"
    /\ UNCHANGED <<SOCKET_CLIENT, readerVars, dialogVars, extVars>>
    /\ \E io \in {"ok", "ConnectionError", "OSError"} :
          IF io = "ok"
          THEN /\ clients' = [clients EXCEPT ![c].buffer = Tail(buf),
                                             ![c].pending = <<>>,
                                             ![c].lock = 0]
               /\ SetThread(t, [threads[t] EXCEPT !.pc = "done",
                                   !.resp = Head(buf),
                                   !.outcome = "value", !.via = "socket"])
          ELSE Faulted(t, io)

(* the HTTP request after `except ConnectionError: pass`; mgba_read8 turns *)
(* a failed /read8 into mgba_read16, whose own HTTP failure is raised.     *)
Http(t) ==
    /\ threads[t].pc = "http"
    /\ UNCHANGED <<SOCKET_CLIENT, clients, readerVars, dialogVars, extVars>>
    /\ \E reachable \in BOOLEAN :
          SetThread(t,
              IF reachable
              THEN [threads[t] EXCEPT !.pc = "done", !.outcome = "value",
                                      !.via = "http"]
              ELSE IF threads[t].depth = 0
                   THEN [threads[t] EXCEPT !.pc = "check", !.depth = 1]
                   ELSE [threads[t] EXCEPT !.pc = "done", !.outcome = "raised"])

(* mgba_read8 has returned or raised; the thread may read again *)
Finish(t) ==
    /\ threads[t].pc = "done"
    /\ SetThread(t, IdleThread)
    /\ UNCHANGED <<SOCKET_CLIENT, clients, readerVars, dialogVars, extVars>>

SockNext ==
    \/ \E t \in Threads : CallRead8(t)
    \/ \E t \in Threads : CheckClient(t)
    \/ \E t \in Threads : CreateClient(t)
    \/ \E t \in Threads : ReturnClient(t)
    \/ \E t \in Threads : Acquire(t)
    \/ \E t \in Threads : Connect(t)
    \/ \E t \in Threads : Send(t)
    \/ \E t \in Threads : Recv(t)
    \/ \E t \in Threads : Http(t)
    \/ \E t \in Threads : Finish(t)

SpecSocket == SockInit /\ [][SockNext]_vars

-----------------------------------------------------------------------------
(* Properties of the socket client *)

(* requests sent to the bridge whose response has not been received *)
InFlight == {ck \in (1..Len(clients)) \X Threads :
                 ck[2] <= Len(clients[ck[1]].pending)}

(* C9: one read makes at most two socket attempts, and a read whose        *)
(* socket request faulted twice ends in an error, never in a value.        *)
C9_TwoAttemptsThenHardError ==
    \A t \in Threads :
        /\ threads[t].tries <= 2
        /\ (threads[t].faults >= 2 => threads[t].outcome # "value")

(* C10: all threads use one connection under one lock: at no time are two  *)
(* requests in flight to the bridge, and a thread receives the response    *)
(* to its own request, also when the threads' first requests coincide.     *)
C10_OneRequestInFlight ==
    /\ Cardinality(InFlight) <= 1
    /\ \A t \in Threads : threads[t].resp \in {0, t}

-----------------------------------------------------------------------------
(* ui/dialog.py: get_dialog_state                                          *)
(*                                                                         *)
(* Memory is kept as the signals the detectors key on: the top-level       *)
(* callback2 (named after the screen that installs it), the set of active  *)
(* tasks (named after the detector that looks for them) and a set of       *)
(* flags for the remaining bytes the classifier reads.                     *)
Callbacks ==
    {"overworld", "titleScreen", "namingScreen", "flyMap", "pokedex",
     "pokemonStorage", "tmCase", "bagMenu", "trainerCard", "optionMenu",
     "partyMenu", "shopBuyMenu", "summaryScreen", "summaryMoveReplace", "other"}

TaskKinds ==
    {"titleScreen", "controlsGuide", "pikachuIntro", "berryCrushRankings",
     "pokemonStoragePcMenu", "playerPcMenu", "itemStorageList",
     "itemStorageMenu", "startMenu", "optionMenu", "titleMenu", "elevatorMenu",
     "whiteOutRecovery", "shopChoice", "multichoice", "yesNo", "birchGender",
     "birchSpeech"}

Flags ==
    {"inBattle", "fieldLocked", "questLogPlayback", "printerWin0",
     "printerOther", "text", "startWin", "yesnoWin", "saveWin", "battleUi",
     "waiting"}

IdleOverworld == [callback2 |-> "overworld", tasks |-> {}, flags |-> {}]

Weight(m) ==
    (IF m.callback2 = "overworld" THEN 0 ELSE 1)
    + Cardinality(m.tasks) + Cardinality(m.flags)

(* snapshot argument: None, a complete capture, a capture whose chunks are *)
(* all empty, a capture whose battle chunks are empty                      *)
SnapshotArgs == {"none", "full", "empty", "nobattle"}

(* bridge: all reads served; bulk read refused but single reads served;    *)
(* unreachable (every read is a transport fault); reachable but every      *)
(* read answered with the error marker (RuntimeError)                      *)
NetStates == {"ok", "nobulk", "fault", "error"}

ReadsOk(n) == n \in {"ok", "nobulk"}

(* the snapshot that _compute works from: a bulk read is attempted when    *)
(* the argument is None and any exception of it leaves snapshot = None     *)
SnapshotUsed(a, n) ==
    IF a = "none" THEN (IF n = "ok" THEN "full" ELSE "none") ELSE a

Mode(s) == IF s = "none" THEN "slow" ELSE "snapshot"

(* _DialogBuffers: as built by _read_snapshot_buffers, or by the slow      *)
(* fallback; a field that cannot be read defaults to False / 0 / None      *)
DialogBuffers(m, s, n) ==
    LET raw == s \in {"full", "nobattle"}
        seen == raw \/ ReadsOk(n)
    IN [field_locked |-> seen /\ "fieldLocked" \in m.flags,
        in_battle |-> seen /\ "inBattle" \in m.flags,
        callback2 |-> IF seen THEN m.callback2 ELSE "zero",
        raw |-> raw,
        battle_raw |-> s = "full",
        start_menu_window_open |-> raw /\ "startWin" \in m.flags,
        yesno_window_open |-> raw /\ "yesnoWin" \in m.flags]

(* a buffer of the snapshot, or the live read that replaces a missing one *)
Readable(b, n) == b.raw \/ ReadsOk(n)

window0_printer_active(m, b, n) == Readable(b, n) /\ "printerWin0" \in m.flags

save_info_window_visible(m, b, n) == Readable(b, n) /\ "saveWin" \in m.flags

any_text_printer_active(m, b, n) ==
    Readable(b, n) /\ ({"printerWin0", "printerOther"} \cap m.flags) # {}

(* player.snapshot: script context waiting for an A/B press *)
is_waiting_for_a_or_b_press(m, n) == ReadsOk(n) /\ "waiting" \in m.flags

in_dialog(m, b, n) ==
    IF b.in_battle THEN TRUE
    ELSE IF b.field_locked
         THEN window0_printer_active(m, b, n) \/ is_waiting_for_a_or_b_press(m, n)
         ELSE FALSE

(* the variant takes the fast path only when no task is active *)
FastPathIdleTasksOnly(m, b, n) ==
    /\ m.tasks = {}
    /\ ~ b.in_battle
    /\ ~ b.field_locked
    /\ b.callback2 = "overworld"
    /\ ~ b.start_menu_window_open
    /\ ~ b.yesno_window_open
    /\ ~ save_info_window_visible(m, b, n)
    /\ ~ any_text_printer_active(m, b, n)

(* the condition of the fast path *)
FastPath(m, b, n) ==
    /\ ~ b.in_battle
    /\ ~ b.field_locked
    /\ b.callback2 = "overworld"
    /\ ~ b.start_menu_window_open
    /\ ~ b.yesno_window_open
    /\ ~ save_info_window_visible(m, b, n)
    /\ ~ any_text_printer_active(m, b, n)

is_new_game_birch_speech_active(m, b, n) ==
    Readable(b, n) /\ "birchSpeech" \in m.tasks

dialog_read_safe(m, b, n) ==
    in_dialog(m, b, n) \/ is_new_game_birch_speech_active(m, b, n)

(* The detectors of the chain, in the order of the calls in _compute *)
DetectorOrder ==
    <<"titleScreen", "namingScreen", "controlsGuide", "pikachuIntro",
      "questLogPlayback", "flyMap", "pokedex", "pokemonStorage",
      "berryCrushRankings", "pokemonStoragePcMenu", "playerPcMenu",
      "itemStorageList", "itemStorageMenu", "startMenu", "tmCase", "bagMenu",
      "trainerCard", "optionMenu", "titleMenu", "partyMenu", "shopBuyMenu",
      "summaryScreen", "summaryMoveReplace", "elevatorMenu", "whiteOutRecovery">>

(* detectors that test callback2 alone before reading their screen data *)
CallbackDetectors ==
    {"namingScreen", "flyMap", "pokedex", "pokemonStorage", "tmCase", "bagMenu",
     "trainerCard", "partyMenu", "shopBuyMenu", "summaryScreen",
     "summaryMoveReplace"}

(* the signature a detector looks for in memory *)
Evidence(d, m, b) ==
    CASE d \in CallbackDetectors -> b.callback2 = d
      [] d \in {"titleScreen", "optionMenu"} -> b.callback2 = d \/ d \in m.tasks
      [] d = "questLogPlayback" -> "questLogPlayback" \in m.flags
      [] d = "startMenu" -> "startMenu" \in m.tasks /\ "startWin" \in m.flags
      [] OTHER -> d \in m.tasks

(* detectors that decide from the captured buffers alone; the others read  *)
(* pointers, ROM strings or task data through the bridge                   *)
DecidesFromBuffers(d, m) ==
    \/ d \in {"titleScreen", "berryCrushRankings", "startMenu",
              "whiteOutRecovery", "yesNo"}
    \/ d = "questLogPlayback" /\ "text" \in m.flags

(* Every detector body is one try/except Exception: return None, so a      *)
(* read that fails makes the detector report "not recognized".             *)
Recognizes(d, m, b, n) ==
    Evidence(d, m, b) /\ (ReadsOk(n) \/ (b.raw /\ DecidesFromBuffers(d, m)))

(* the detector issues a read through the bridge *)
ReadsBridge(d, m, b) ==
    ~ b.raw \/ (Evidence(d, m, b) /\ ~ DecidesFromBuffers(d, m))

(* The result record: the fields of the returned dict that the properties  *)
(* speak about ("None" is Python's None, "text" a non-empty string), and   *)
(* three bookkeeping fields: the branch that produced it, whether it came  *)
(* from the fast path, whether a read was issued to the bridge.            *)
default_result ==
    [kind |-> "result", inDialog |-> FALSE, menuType |-> "None",
     visibleText |-> "None", via |-> "none", fast |-> FALSE, remote |-> FALSE]

Pending == [default_result EXCEPT !.kind = "pending"]

(* an exception that leaves get_dialog_state *)
Raises(exc) == [default_result EXCEPT !.kind = "raised", !.via = exc]

ExceptionOf(n) == IF n = "fault" THEN "TransportFault" ELSE "RuntimeError"

(* index of the first detector of a list that recognizes its screen, or 0 *)
FirstRecognized(order, m, b, n) ==
    LET hits == {i \in 1..Len(order) : Recognizes(order[i], m, b, n)}
    IN IF hits = {} THEN 0 ELSE CHOOSE i \in hits : \A j \in hits : i <= j

(* find_active_textprinter_text: text of an active printer, or of the      *)
(* inactive window-0 printer when asked for                                *)
find_active_textprinter_text(m, b, n, include_inactive_window0) ==
    /\ Readable(b, n)
    /\ "text" \in m.flags
    /\ (any_text_printer_active(m, b, n) \/ include_inactive_window0)

(* the `if <detector>:` blocks of the chain *)
Recognized(d, m, b, n) ==
    [default_result EXCEPT
        !.inDialog = TRUE,
        !.menuType = IF d = "whiteOutRecovery" THEN "dialog" ELSE d,
        !.visibleText = IF d = "whiteOutRecovery" /\ ~ ("text" \in m.flags \/ ReadsOk(n))
                        THEN "None" ELSE "text",
        !.via = d]

(* the generic choice-menu block: entered only in slow mode outside a      *)
(* dialog, and it always returns                                           *)
ChoiceOrderSlow == <<"shopChoice", "multichoice", "yesNo", "playerPcMenu">>

generic_choice(m, b, n) ==
    IF FirstRecognized(ChoiceOrderSlow, m, b, n) = 0
    THEN [default_result EXCEPT !.via = "genericChoice"]
    ELSE [default_result EXCEPT !.inDialog = TRUE, !.menuType = "dialog",
                                !.visibleText = "text", !.via = "genericChoice"]

(* the in-battle block: a battle buffer that is missing or short is read   *)
(* through the bridge outside any try                                      *)
battle_branch(m, b, n) ==
    IF ~ b.battle_raw /\ ~ ReadsOk(n)
    THEN Raises(ExceptionOf(n))
    ELSE LET ui_state == "battleUi" \in m.flags
             battle_text == find_active_textprinter_text(m, b, n, TRUE)
         IN [default_result EXCEPT
                !.inDialog = TRUE,
                !.menuType = IF ui_state THEN "battleActions" ELSE "battle",
                !.visibleText = IF ui_state \/ battle_text THEN "text" ELSE "None",
                !.via = "battle"]

(* the plain-text block *)
ChoiceOrderPlain ==
    <<"shopChoice", "multichoice", "yesNo", "birchGender", "playerPcMenu">>

(* the last test of _compute: what makes the result a dialog *)
sets_dialog_on_evidence(in_dlg, has_dialog_evidence) == has_dialog_evidence

sets_dialog(in_dlg, has_dialog_evidence) == in_dlg \/ has_dialog_evidence

plain_text(m, b, n) ==
    LET visible == find_active_textprinter_text(m, b, n, dialog_read_safe(m, b, n))
        save_info == save_info_window_visible(m, b, n) /\ ReadsOk(n)
        choice_menu == FirstRecognized(ChoiceOrderPlain, m, b, n) # 0
        has_dialog_evidence == visible \/ choice_menu \/ save_info
    IN IF sets_dialog(in_dialog(m, b, n), has_dialog_evidence)
       THEN [default_result EXCEPT
                !.inDialog = TRUE, !.menuType = "dialog",
                !.visibleText = IF has_dialog_evidence THEN "text" ELSE "None",
                !.via = "plainText"]
       ELSE [default_result EXCEPT !.via = "plainText"]

(* _compute after the fast path: the detector chain and its tail.  With    *)
(* no tasks buffer, _read_whiteout_recovery_state searches the tasks       *)
(* through the bridge outside any try.                                     *)
chain(m, b, n, mode) ==
    LET i == FirstRecognized(DetectorOrder, m, b, n)
    IN IF i # 0 THEN Recognized(DetectorOrder[i], m, b, n)
       ELSE IF ~ b.raw /\ ~ ReadsOk(n) THEN Raises(ExceptionOf(n))
       ELSE IF mode = "slow" /\ ~ in_dialog(m, b, n) THEN generic_choice(m, b, n)
       ELSE IF b.in_battle THEN battle_branch(m, b, n)
       ELSE plain_text(m, b, n)

(* result["inDialog"] is set to in_dialog before the fast path, and the   *)
(* blocks that follow only ever set it to True                             *)
compute(m, b, n, mode) ==
    LET r == IF FastPath(m, b, n)
             THEN [default_result EXCEPT !.fast = TRUE, !.via = "fastPath"]
             ELSE chain(m, b, n, mode)
    IN IF r.kind = "result"
       THEN [r EXCEPT !.inDialog = @ \/ in_dialog(m, b, n)]
       ELSE r

(* some read went to the bridge during the call *)
Remote(a, m, b, n, r) ==
    \/ a = "none"
    \/ ~ b.raw
    \/ /\ ~ r.fast
       /\ LET i == FirstRecognized(DetectorOrder, m, b, n)
          IN \E k \in 1..Len(DetectorOrder) :
                (i = 0 \/ k <= i) /\ ReadsBridge(DetectorOrder[k], m, b)
    \/ r.kind = "raised"

get_dialog_state(m, a, n) ==
    LET s == SnapshotUsed(a, n)
        b == DialogBuffers(m, s, n)
        r == compute(m, b, n, Mode(s))
    IN [r EXCEPT !.remote = Remote(a, m, b, n, r)]

-----------------------------------------------------------------------------
(* Dialog specification: the game changes one signal of memory at a time;  *)
(* get_dialog_state is called with any snapshot argument, the bridge in    *)
(* any state.  `result` is the outcome of the last call on the current     *)
(* memory.                                                                 *)
DialogInit ==
    /\ ExtRest
    /\ mem = IdleOverworld
    /\ snapshot = "none"
    /\ net = "ok"
    /\ result = Pending
    /\ segments = <<>>
    /\ rdKind = "none"
    /\ rdAddr = 0
    /\ rdSize = 0
    /\ snapRes = NoRead
    /\ liveRes = NoRead
    /\ SOCKET_CLIENT = 0
    /\ clients = <<>>
    /\ threads = <<>>

GameWrites(m) ==
    /\ Weight(m) <= MaxSignals
    /\ m # mem
    /\ mem' = m
    /\ snapshot' = "none"
    /\ net' = "ok"
    /\ result' = Pending
    /\ UNCHANGED <<readerVars, sockVars, extVars>>

GameSetsCallback2 == \E c \in Callbacks : GameWrites([mem EXCEPT !.callback2 = c])

GameTogglesTask ==
    \E t \in TaskKinds :
        GameWrites([mem EXCEPT !.tasks = IF t \in @ THEN @ \ {t} ELSE @ \cup {t}])

GameTogglesFlag ==
    \E f \in Flags :
        GameWrites([mem EXCEPT !.flags = IF f \in @ THEN @ \ {f} ELSE @ \cup {f}])

GetDialogState ==
    \E a \in SnapshotArgs, n \in NetStates :
        /\ result' = get_dialog_state(mem, a, n)
        /\ snapshot' = a
        /\ net' = n
        /\ UNCHANGED <<mem, readerVars, sockVars, extVars>>

DialogNext ==
    GameSetsCallback2 \/ GameTogglesTask \/ GameTogglesFlag \/ GetDialogState

SpecDialog == DialogInit /\ [][DialogNext]_vars

-----------------------------------------------------------------------------
(* Properties of get_dialog_state *)

(* buffers and mode of the last call *)
LastBuffers == DialogBuffers(mem, SnapshotUsed(snapshot, net), net)

LastMode == Mode(SnapshotUsed(snapshot, net))

(* what a caller can observe of a result *)
Observable(r) == <<r.kind, r.inDialog, r.menuType, r.visibleText>>

(* C1: whenever get_dialog_state returns through the fast path, the full   *)
(* detector chain run on the same memory also returns the none state.      *)
C1_FastPathSound ==
    (result.kind = "result" /\ result.fast) =>
        LET r == chain(mem, LastBuffers, net, LastMode)
        IN r.kind = "result" /\ r.menuType = "None" /\ ~ r.inDialog

(* the priority order stated for the chain and its tail *)
PriorityOrder == DetectorOrder \o <<"genericChoice", "battle", "plainText">>

(* stage st of the priority order would recognize its screen *)
StageRecognizes(st, m, b, n) ==
    CASE st = "genericChoice" -> FirstRecognized(ChoiceOrderSlow, m, b, n) # 0
      [] st = "battle" -> b.in_battle
      [] st = "plainText" -> plain_text(m, b, n).menuType # "None"
      [] OTHER -> Recognizes(st, m, b, n)

(* the state that stage st reports *)
StageMenuType(st, m, b, n) ==
    CASE st \in {"genericChoice", "plainText", "whiteOutRecovery"} -> "dialog"
      [] st = "battle" -> battle_branch(m, b, n).menuType
      [] OTHER -> st

(* C2: outside the fast path, the returned state is that of the first      *)
(* stage of the priority order that recognizes its screen, in snapshot     *)
(* mode and in live mode alike; it is none when no stage does.             *)
C2_FirstRecognizerWins ==
    (result.kind = "result" /\ ~ result.fast) =>
        LET b == LastBuffers
            hits == {i \in 1..Len(PriorityOrder) :
                        StageRecognizes(PriorityOrder[i], mem, b, net)}
        IN IF hits = {} THEN result.menuType = "None"
           ELSE LET i == CHOOSE i \in hits : \A j \in hits : i <= j
                IN result.menuType = StageMenuType(PriorityOrder[i], mem, b, net)

(* C3: a call during which every read issued to the bridge faults ends in  *)
(* an error raised to the caller, never in a returned state.               *)
C3_UnreachableIsHardFailure ==
    (result.kind # "pending" /\ net = "fault" /\ result.remote) =>
        result.kind = "raised"

(* C4: as long as the transport has not faulted, get_dialog_state returns  *)
(* a result and raises nothing, in every branch.                           *)
C4_ChainTotal ==
    (result.kind # "pending" /\ net # "fault") => result.kind = "result"

(* C5: the visibleText of a returned result is a string, and it is the     *)
(* empty string when the state is none.                                    *)
C5_VisibleTextIsString ==
    result.kind = "result" =>
        /\ result.visibleText # "None"
        /\ (result.menuType = "None" => result.visibleText = "")

(* C6: with the bulk read unavailable and single reads served, the call    *)
(* returns the same state as it does from a captured snapshot of the same  *)
(* memory.                                                                 *)
C6_DegradedSameState ==
    (result.kind # "pending" /\ snapshot = "none" /\ net = "nobulk") =>
        Observable(result) = Observable(get_dialog_state(mem, "none", "ok"))

-----------------------------------------------------------------------------
(* memory/mgba.py: per-query read metrics                                  *)
(*                                                                         *)
(* _MGBA_METRICS is a contextvars.ContextVar: every thread serving a query *)
(* has its own context, so the variable has one value per query; 0 stands  *)
(* for None, any other value is the index of a MgbaReadMetrics object in   *)
(* `metrics`.  `scopes` and `issued` record what the queries did: which    *)
(* scopes each query is inside of, and how many calls of the wrappers each *)
(* query made inside each scope and outside of any.                        *)

(* Bounds of the metrics model *)
NumQueries == 2    \* queries served at the same time
MaxScopes == 2     \* MgbaReadMetrics objects created in a run
MaxDepth == 2      \* scopes one query nests
MaxReads == 2      \* wrapper calls made in a run
MaxLength == 1     \* length argument of the ranged reads: 0..MaxLength

Queries == 1..NumQueries

MgbaReadMetrics ==
    [read8_calls |-> 0, read16_calls |-> 0, read32_calls |-> 0,
     read_range_calls |-> 0, read_ranges_calls |-> 0,
     read_range_bytes_calls |-> 0, read_ranges_bytes_calls |-> 0,
     ranges_read |-> 0, bytes_requested |-> 0, bytes_returned |-> 0]

MetricsInit ==
    /\ MGBA_METRICS = [q \in Queries |-> 0]
    /\ tokens = [q \in Queries |-> <<>>]
    /\ metrics = <<>>
    /\ scopes = [q \in Queries |-> <<>>]
    /\ issued = [inside |-> <<>>, ended |-> <<>>,
                 outside |-> [q \in Queries |-> 0], total |-> 0]
    /\ BulkRest
    /\ MatchRest
    /\ ListRest
    /\ BattleRest
    /\ TextRest
    /\ ScanRest
    /\ BytesRest
    /\ FogRest
    /\ DerefRest
    /\ ChoiceRest
    /\ RangeRest
    /\ CoreRest

(* _MGBA_METRICS.get() in the context of query q.  The variant reads one   *)
(* process-wide slot instead of the caller's context.                      *)
mgba_metrics_shared(q) == MGBA_METRICS[1]

mgba_metrics(q) == MGBA_METRICS[q]

(* with _mgba_metrics_context(): a new object, set() keeps the old value   *)
(* in the token.                                                           *)
EnterContext(q) ==
    /\ Len(metrics) < MaxScopes
    /\ Len(tokens[q]) < MaxDepth
    /\ metrics' = Append(metrics, MgbaReadMetrics)
    /\ tokens' = [tokens EXCEPT ![q] = <<MGBA_METRICS[q]>> \o @]
    /\ MGBA_METRICS' = [MGBA_METRICS EXCEPT ![q] = Len(metrics) + 1]
    /\ scopes' = [scopes EXCEPT ![q] = <<Len(metrics) + 1>> \o @]
    /\ issued' = [issued EXCEPT !.inside = Append(@, 0),
                                !.ended = Append(@, "open")]
    /\ UNCHANGED metricsFrame

(* Leaving the with block, by return or by an exception passing through:   *)
(* finally: _MGBA_METRICS.reset(token).                                    *)
ExitContext(q, how) ==
    /\ tokens[q] # <<>>
    /\ MGBA_METRICS' = [MGBA_METRICS EXCEPT ![q] = Head(tokens[q])]
    /\ tokens' = [tokens EXCEPT ![q] = Tail(@)]
    /\ scopes' = [scopes EXCEPT ![q] = Tail(@)]
    /\ issued' = [issued EXCEPT !.ended[Head(scopes[q])] = how]
    /\ UNCHANGED <<metrics, metricsFrame>>

(* What the caller did, whatever the wrappers make of it: one more call    *)
(* inside its innermost scope, or outside of any.                          *)
Issue(q, n) ==
    IF scopes[q] = <<>>
    THEN [issued EXCEPT !.outside[q] = @ + n, !.total = @ + n]
    ELSE [issued EXCEPT !.inside[Head(scopes[q])] = @ + n, !.total = @ + n]

MayIssue(q, n) == issued.total + n <= MaxReads

(* m = _mgba_metrics(); if m is not None: m.<field> += ...                 *)
Record(q, field, requested, returned) ==
    LET m == mgba_metrics(q) IN
    IF m = 0
    THEN metrics
    ELSE [metrics EXCEPT ![m] =
            [[@ EXCEPT ![field] = @ + 1]
                EXCEPT !.bytes_requested = @ + requested,
                       !.bytes_returned = @ + returned]]

MgbaRead8(q) ==
    /\ MayIssue(q, 1)
    /\ metrics' = Record(q, "read8_calls", 1, 1)
    /\ issued' = Issue(q, 1)
    /\ UNCHANGED <<MGBA_METRICS, tokens, scopes, metricsFrame>>

MgbaRead16(q) ==
    /\ MayIssue(q, 1)
    /\ metrics' = Record(q, "read16_calls", 2, 2)
    /\ issued' = Issue(q, 1)
    /\ UNCHANGED <<MGBA_METRICS, tokens, scopes, metricsFrame>>

MgbaRead32(q) ==
    /\ MayIssue(q, 1)
    /\ metrics' = Record(q, "read32_calls", 4, 4)
    /\ issued' = Issue(q, 1)
    /\ UNCHANGED <<MGBA_METRICS, tokens, scopes, metricsFrame>>

(* mgba_read_range: bytes_returned is added only when the read returned *)
MgbaReadRange(q, length, ok) ==
    /\ MayIssue(q, 1)
    /\ metrics' = Record(q, "read_range_calls", length, IF ok THEN length ELSE 0)
    /\ issued' = Issue(q, 1)
    /\ UNCHANGED <<MGBA_METRICS, tokens, scopes, metricsFrame>>

(* mgba_read_range_bytes: when the client raises, the except branch calls *)
(* the mgba_read_range wrapper, which records a call of its own.          *)
MgbaReadRangeBytes(q, length, ok, fallback_ok) ==
    LET m == mgba_metrics(q)
        first == Record(q, "read_range_bytes_calls", length,
                        IF ok THEN length ELSE 0)
        second == IF m = 0
                  THEN first
                  ELSE [first EXCEPT ![m] =
                          [@ EXCEPT !.read_range_calls = @ + 1,
                                    !.bytes_requested = @ + length,
                                    !.bytes_returned =
                                        @ + (IF fallback_ok THEN length ELSE 0)]]
    IN  /\ MayIssue(q, IF ok THEN 1 ELSE 2)
        /\ metrics' = (IF ok THEN first ELSE second)
        /\ issued' = Issue(q, IF ok THEN 1 ELSE 2)
        /\ UNCHANGED <<MGBA_METRICS, tokens, scopes, metricsFrame>>

MetricsNext ==
    \/ \E q \in Queries : EnterContext(q)
    \/ \E q \in Queries, how \in {"returned", "raised"} : ExitContext(q, how)
    \/ \E q \in Queries : MgbaRead8(q)
    \/ \E q \in Queries : MgbaRead16(q)
    \/ \E q \in Queries : MgbaRead32(q)
    \/ \E q \in Queries, length \in 0..MaxLength, ok \in BOOLEAN :
          MgbaReadRange(q, length, ok)
    \/ \E q \in Queries, length \in 0..MaxLength, ok, fallback_ok \in BOOLEAN :
          MgbaReadRangeBytes(q, length, ok, fallback_ok)

SpecMetrics == MetricsInit /\ [][MetricsNext]_vars

-----------------------------------------------------------------------------
(* Properties of the metrics scope *)

Calls(m) ==
    m.read8_calls + m.read16_calls + m.read32_calls + m.read_range_calls
    + m.read_ranges_calls + m.read_range_bytes_calls + m.read_ranges_bytes_calls

InnermostScope(q) == IF scopes[q] = <<>> THEN 0 ELSE Head(scopes[q])

(* C11: the metrics object a query's reads are recorded in is the one of   *)
(* the innermost scope the query is inside of, and none when it is inside  *)
(* of no scope (a scope left by return or by an error is gone); every      *)
(* object counts exactly the calls its own query issued inside its scope,  *)
(* so calls of other queries and calls outside any scope change nothing.   *)
C11_MetricsScopedPerQuery ==
    /\ \A q \in DOMAIN scopes : mgba_metrics(q) = InnermostScope(q)
    /\ \A i \in DOMAIN metrics : Calls(metrics[i]) = issued.inside[i]

(* Both queries are inside scopes of their own at the same time; one of    *)
(* them has issued a read inside its scope, the other only outside of any  *)
(* scope, before it entered its own.                                       *)
C11_Witness ==
    /\ scopes[1] # <<>> /\ scopes[2] # <<>>
    /\ Head(scopes[1]) # Head(scopes[2])
    /\ Calls(metrics[Head(scopes[1])]) = 1
    /\ Calls(metrics[Head(scopes[2])]) = 0
    /\ issued.outside[2] = 1

-----------------------------------------------------------------------------
(* Error-prefixed responses, as get_dialog_state handles them *)

(* C12: a call whose reads are answered with the error prefix ends in an   *)
(* exception raised to the caller; it never returns a state built from     *)
(* values put in the place of the failed reads.                            *)
C12_ErrorResponseRaises ==
    (result.kind # "pending" /\ net = "error" /\ result.remote) =>
        result.kind = "raised"

-----------------------------------------------------------------------------
(* mgba_client.py: ranged reads over the socket                            *)
(*                                                                         *)
(* A payload is a sequence of characters.  The bridge answers a            *)
(* multi-range request with one segment per range, the segments separated  *)
(* by "|"; a segment is empty when the bridge has no bytes for its range.  *)

(* Bound of the ranged-read model: READ_RANGE_CHUNK (config.py, 1024 by    *)
(* default), scaled down so that lengths up to MaxSize need several chunks *)
READ_RANGE_CHUNK == 2

DEFAULT_RETURN == <<"<|SUCCESS|>">>

HexDigits ==
    <<"0", "1", "2", "3", "4", "5", "6", "7",
      "8", "9", "a", "b", "c", "d", "e", "f">>

IsHexDigit(c) == \E v \in 1..16 : HexDigits[v] = c

HexValue(c) == (CHOOSE v \in 1..16 : HexDigits[v] = c) - 1

(* str.split(sep) *)
RECURSIVE Split(_, _)
Split(text, sep) ==
    IF \A i \in 1..Len(text) : text[i] # sep
    THEN <<text>>
    ELSE LET i == CHOOSE i \in 1..Len(text) :
                    text[i] = sep /\ \A j \in 1..(i - 1) : text[j] # sep
         IN <<SubSeq(text, 1, i - 1)>> \o Split(SubSeq(text, i + 1, Len(text)), sep)

(* str.strip() *)
RECURSIVE strip(_)
strip(text) ==
    IF text = <<>> THEN text
    ELSE IF Head(text) \in {" ", "\n"} THEN strip(Tail(text))
    ELSE IF text[Len(text)] \in {" ", "\n"} THEN strip(SubSeq(text, 1, Len(text) - 1))
    ELSE text

(* bytes.fromhex: blanks are skipped, then pairs of hex digits *)
fromhex(text) ==
    LET t == SelectSeq(text, LAMBDA c : c # " ")
    IN IF Len(t) % 2 = 1 \/ \E i \in 1..Len(t) : ~ IsHexDigit(t[i])
       THEN Raise("ValueError")
       ELSE Ok([k \in 1..(Len(t) \div 2) |->
                   HexValue(t[2 * k - 1]) * 16 + HexValue(t[2 * k])])

parse_hex_string_bytes(text) ==
    IF strip(text) = <<>> THEN Ok(<<>>) ELSE fromhex(strip(text))

(* int(p, 16) of a run of hex digits *)
RECURSIVE IntHex(_)
IntHex(p) ==
    IF p = <<>> THEN 0
    ELSE IntHex(SubSeq(p, 1, Len(p) - 1)) * 16 + HexValue(p[Len(p)])

(* bytes(_parse_hex_csv(text)) *)
parse_hex_csv_bytes(text) ==
    IF strip(text) = <<>> THEN Ok(<<>>)
    ELSE LET all == Split(strip(text), ",")
             stripped == [i \in 1..Len(all) |-> strip(all[i])]
             parts == SelectSeq(stripped, LAMBDA q : q # <<>>)
         IN IF \E i \in 1..Len(parts) :
                  \/ \E k \in 1..Len(parts[i]) : ~ IsHexDigit(parts[i][k])
                  \/ IntHex(parts[i]) > 255
            THEN Raise("ValueError")
            ELSE Ok([i \in 1..Len(parts) |-> IntHex(parts[i])])

(* try: _parse_hex_string_bytes(x)  except ValueError: bytes(_parse_hex_csv(x)) *)
ParseBytes(text) ==
    IF parse_hex_string_bytes(text).ok
    THEN parse_hex_string_bytes(text)
    ELSE parse_hex_csv_bytes(text)

(* What the bridge sends: a byte as two hex digits, or in the legacy       *)
(* commands as a hex number without padding, the bytes joined by commas.   *)
HexPair(v) == <<HexDigits[(v \div 16) + 1], HexDigits[(v % 16) + 1]>>

HexNumber(v) == IF v < 16 THEN <<HexDigits[v + 1]>> ELSE HexPair(v)

RECURSIVE Join(_, _)
Join(parts, sep) ==
    IF parts = <<>> THEN <<>>
    ELSE IF Len(parts) = 1 THEN parts[1]
    ELSE parts[1] \o <<sep>> \o Join(Tail(parts), sep)

RECURSIVE Concat(_)
Concat(parts) == IF parts = <<>> THEN <<>> ELSE Head(parts) \o Concat(Tail(parts))

BridgeSegment(range, legacy) ==
    LET data == read_range_bytes(range[1], range[2])
    IN IF legacy
       THEN Join([k \in 1..Len(data) |-> HexNumber(data[k])], ",")
       ELSE Concat([k \in 1..Len(data) |-> HexPair(data[k])])

(* the answer to bridge.readRangesHex / bridge.readRanges for `ranges`     *)
BridgeRanges(ranges, served, legacy) ==
    Join([i \in 1..Len(ranges) |->
            IF i \in served THEN BridgeSegment(ranges[i], legacy) ELSE <<>>], "|")

(* The bridge during one call: it serves the hex commands; only the legacy *)
(* commands (the hex ones answer the success marker); neither; it answers  *)
(* with the error marker; the socket is down and HTTP serves the reads.    *)
BridgeModes == {"hex", "legacy", "nodata", "error", "http"}

(* the payload the parsing works on: the second request replaces a first   *)
(* answer that is the bare success marker                                  *)
Response(ranges, served, mode) ==
    CASE mode = "hex" -> BridgeRanges(ranges, served, FALSE)
      [] mode = "legacy" -> BridgeRanges(ranges, served, TRUE)
      [] OTHER -> DEFAULT_RETURN

(* mgba_read_ranges_bytes(ranges) *)
mgba_read_ranges_bytes(ranges, served, mode) ==
    IF ranges = <<>> THEN Ok(<<>>)
    ELSE IF mode = "http"
    THEN Ok([i \in 1..Len(ranges) |-> read_range_bytes(ranges[i][1], ranges[i][2])])
    ELSE IF mode = "error" THEN Raise("RuntimeError")
    ELSE LET resp == Response(ranges, served, mode)
             segs == Split(resp, "|")
             results == [i \in 1..Len(segs) |->
                           IF strip(segs[i]) = <<>> THEN Ok(<<>>)
                           ELSE ParseBytes(segs[i])]
         IN IF resp = DEFAULT_RETURN
            THEN Ok([i \in 1..Len(ranges) |-> <<>>])
            ELSE IF \E i \in 1..Len(segs) : ~ results[i].ok
            THEN Raise("ValueError")
            ELSE Ok([i \in 1..Len(segs) |-> results[i].val])

(* _read_ranges_socket_bytes(ranges): one buffer, empty segments skipped *)
read_ranges_socket_bytes(ranges, served, mode) ==
    IF ranges = <<>> THEN Ok(<<>>)
    ELSE IF mode = "error" THEN Raise("RuntimeError")
    ELSE LET resp == Response(ranges, served, mode)
             segs == SelectSeq(Split(resp, "|"), LAMBDA g : strip(g) # <<>>)
             results == [i \in 1..Len(segs) |-> ParseBytes(segs[i])]
         IN IF resp = DEFAULT_RETURN
            THEN Ok(<<>>)
            ELSE IF \E i \in 1..Len(segs) : ~ results[i].ok
            THEN Raise("ValueError")
            ELSE Ok(Concat([i \in 1..Len(segs) |-> results[i].val]))

(* the chunk ranges mgba_read_range_bytes builds for a long read *)
RECURSIVE Chunks(_, _, _)
Chunks(addr, length, read) ==
    IF read < length
    THEN LET chunk_len == IF READ_RANGE_CHUNK < length - read
                          THEN READ_RANGE_CHUNK ELSE length - read
         IN <<<<addr + read, chunk_len>>>> \o Chunks(addr, length, read + chunk_len)
    ELSE <<>>

(* mgba_read_range_bytes(addr, length) *)
mgba_read_range_bytes(addr, length, served, mode) ==
    IF length <= 0 THEN Ok(<<>>)
    ELSE IF mode = "http" THEN Ok(read_range_bytes(addr, length))
    ELSE IF mode = "error" THEN Raise("RuntimeError")
    ELSE IF length <= READ_RANGE_CHUNK
    THEN LET resp == Response(<<<<addr, length>>>>, served, mode)
         IN IF resp = DEFAULT_RETURN THEN Ok(<<>>)
            ELSE IF mode = "legacy" THEN parse_hex_csv_bytes(resp)
            ELSE ParseBytes(resp)
    ELSE read_ranges_socket_bytes(Chunks(addr, length, 0), served, mode)

(* The calls made: a list of ranges or one range, the ranges (or chunks)   *)
(* the bridge has bytes for, and the bridge's mode.                        *)
ServedSets(n, mode) ==
    IF mode \in {"hex", "legacy"} THEN SUBSET (1..n) ELSE {{}}

BulkCalls ==
    {[op |-> "ranges", ranges |-> r, served |-> sv, mode |-> md] :
        r \in RangeLists, sv \in SUBSET (1..MaxRanges), md \in BridgeModes}
    \cup {[op |-> "range", ranges |-> <<r>>, served |-> sv, mode |-> md] :
        r \in RangeSet, sv \in SUBSET (1..MaxSize), md \in BridgeModes}

NumSegments(call) ==
    IF call.op = "ranges" THEN Len(call.ranges)
    ELSE Len(Chunks(call.ranges[1][1], call.ranges[1][2], 0))

BulkInit ==
    /\ bulkCall \in {c \in BulkCalls : c.served \in ServedSets(NumSegments(c), c.mode)}
    /\ bulkOut = NoRead
    /\ MetricsRest
    /\ MatchRest
    /\ ListRest
    /\ BattleRest
    /\ TextRest
    /\ ScanRest
    /\ BytesRest
    /\ FogRest
    /\ DerefRest
    /\ ChoiceRest
    /\ RangeRest
    /\ CoreRest

MgbaReadRangesBytes ==
    /\ bulkCall.op = "ranges"
    /\ bulkOut = NoRead
    /\ bulkOut' = mgba_read_ranges_bytes(bulkCall.ranges, bulkCall.served, bulkCall.mode)
    /\ UNCHANGED <<bulkCall, bulkFrame>>

MgbaReadRangeBytesClient ==
    /\ bulkCall.op = "range"
    /\ bulkOut = NoRead
    /\ bulkOut' = mgba_read_range_bytes(bulkCall.ranges[1][1], bulkCall.ranges[1][2],
                                        bulkCall.served, bulkCall.mode)
    /\ UNCHANGED <<bulkCall, bulkFrame>>

BulkNext == MgbaReadRangesBytes \/ MgbaReadRangeBytesClient

SpecBulk == BulkInit /\ [][BulkNext]_vars

-----------------------------------------------------------------------------
(* Properties of the ranged reads *)

(* the bytes the bridge has for range i of a call *)
BytesOfRange(call, i) ==
    IF call.mode = "http" \/ i \in call.served
    THEN read_range_bytes(call.ranges[i][1], call.ranges[i][2])
    ELSE <<>>

(* a returned list pairs its i-th buffer with the i-th requested range *)
PairedWithRanges ==
    (bulkCall.op = "ranges" /\ bulkOut.ok) =>
        /\ Len(bulkOut.val) = Len(bulkCall.ranges)
        /\ \A i \in 1..Len(bulkCall.ranges) :
              bulkOut.val[i] = BytesOfRange(bulkCall, i)

(* a returned buffer holds at offset k the byte of address addr + k *)
BufferInPlace ==
    (bulkCall.op = "range" /\ bulkOut.ok) =>
        \A k \in 1..Len(bulkOut.val) :
            bulkOut.val[k] = read8(bulkCall.ranges[1][1] + k - 1)

(* C13: a multi-range read returns one buffer per requested range, in      *)
(* request order, an empty segment giving an empty buffer for its range;   *)
(* no byte of a later range (or chunk) is returned at the position of an   *)
(* earlier one.                                                            *)
C13_BuffersPairedWithRanges == PairedWithRanges /\ BufferInPlace

-----------------------------------------------------------------------------
(* ui/menus.py, ui/battle.py: task-matching helpers                         *)
(*                                                                         *)
(* gTasks is a table of tasks, each with an isActive byte and a func       *)
(* pointer.  A pointer is a 32-bit value; `& 0xFFFFFFFE` clears its bit 0  *)
(* and keeps the others.                                                   *)

(* Bounds of the task-matching model *)
NumTasks == 2      \* entries of the task table (NUM_TASKS of the game)
MaxPtr == 3        \* pointers 0..MaxPtr: null, null with bit 0, one function
MaxCands == 2      \* candidates handed to a helper

Ptrs == 0..MaxPtr

(* p & 0xFFFFFFFE; the variant keeps bit 0 *)
MaskNothing(p) == p

Mask(p) == p - (p % 2)

(* p ^ 1 *)
Xor1(p) == IF p % 2 = 0 THEN p + 1 ELSE p - 1

(* taskId, from 0; -1 stands for None *)
FirstActiveTask(tasks, masked_set) ==
    LET hits == {i \in 1..Len(tasks) :
                    tasks[i].isActive /\ Mask(tasks[i].func) \in masked_set}
    IN IF hits = {} THEN -1
       ELSE (CHOOSE i \in hits : \A j \in hits : i <= j) - 1

find_active_task_by_func(func_addr, tasks) ==
    IF func_addr = 0 THEN -1
    ELSE FirstActiveTask(tasks, {Mask(func_addr)})

find_active_task_by_funcs(func_addrs, tasks) ==
    LET masked_set == {Mask(func_addrs[k]) :
                          k \in {k \in 1..Len(func_addrs) : func_addrs[k] # 0}}
    IN IF masked_set = {} THEN -1
       ELSE FirstActiveTask(tasks, masked_set)

ptr_matches_any(ptr, candidates) ==
    \E k \in 1..Len(candidates) : Mask(ptr) = Mask(candidates[k])

Helpers == {"_find_active_task_by_func", "_find_active_task_by_funcs", "_ptr_matches_any"}

TaskTables ==
    UNION {[1..n -> [isActive : BOOLEAN, func : Ptrs]] : n \in 0..NumTasks}

CandidateLists == UNION {[1..n -> Ptrs] : n \in 0..MaxCands}

(* the helper applied to a call *)
Helper(call) ==
    CASE call.helper = "_find_active_task_by_func" ->
            find_active_task_by_func(call.cands[1], call.tasks)
      [] call.helper = "_find_active_task_by_funcs" ->
            find_active_task_by_funcs(call.cands, call.tasks)
      [] OTHER -> ptr_matches_any(call.tasks[1].func, call.cands)

(* _ptr_matches_any is given one pointer: a table of one entry stands for  *)
(* it; _find_active_task_by_func is given one candidate.                   *)
MatchCalls ==
    {c \in [helper : Helpers, tasks : TaskTables, cands : CandidateLists] :
        /\ c.helper = "_find_active_task_by_func" => Len(c.cands) = 1
        /\ c.helper = "_ptr_matches_any" => Len(c.tasks) = 1 /\ c.tasks[1].isActive}

MatchInit ==
    /\ matchCall \in MatchCalls
    /\ matchOut = [done |-> FALSE]
    /\ MetricsRest
    /\ BulkRest
    /\ ListRest
    /\ BattleRest
    /\ TextRest
    /\ ScanRest
    /\ BytesRest
    /\ FogRest
    /\ DerefRest
    /\ ChoiceRest
    /\ RangeRest
    /\ CoreRest

FindActiveTaskByFunc ==
    /\ matchCall.helper = "_find_active_task_by_func"
    /\ ~ matchOut.done
    /\ matchOut' = [done |-> TRUE, val |-> Helper(matchCall)]
    /\ UNCHANGED <<matchCall, matchFrame>>

FindActiveTaskByFuncs ==
    /\ matchCall.helper = "_find_active_task_by_funcs"
    /\ ~ matchOut.done
    /\ matchOut' = [done |-> TRUE, val |-> Helper(matchCall)]
    /\ UNCHANGED <<matchCall, matchFrame>>

PtrMatchesAny ==
    /\ matchCall.helper = "_ptr_matches_any"
    /\ ~ matchOut.done
    /\ matchOut' = [done |-> TRUE, val |-> Helper(matchCall)]
    /\ UNCHANGED <<matchCall, matchFrame>>

MatchNext == FindActiveTaskByFunc \/ FindActiveTaskByFuncs \/ PtrMatchesAny

SpecTaskMatch == MatchInit /\ [][MatchNext]_vars

-----------------------------------------------------------------------------
(* Properties of the task-matching helpers *)

(* the call with bit 0 of the stored pointer i, or of candidate k, flipped *)
FlipStored(call, i) == [call EXCEPT !.tasks[i].func = Xor1(@)]

FlipCandidate(call, k) == [call EXCEPT !.cands[k] = Xor1(@)]

-----------------------------------------------------------------------------
(* ui/menus.py: list detectors (bag, TM case, shop buy, item storage)      *)
(*                                                                         *)
(* Each detector reads a scroll offset and a cursor row (u16), a number of *)
(* items and a page size (u8 or u16) from memory, and reports the selected *)
(* index and the rows [start, end) it renders.                             *)

(* Bounds of the list model *)
MaxScroll == 4     \* scroll offsets 0..MaxScroll
MaxRow == 3        \* cursor rows 0..MaxRow
MaxItems == 3      \* items in the list, the CANCEL row not counted
MaxShown == 3      \* page sizes 0..MaxShown, and one beyond every limit

(* a page size no detector accepts: the largest byte *)
TooMany == 256 - 1

Max2(a, b) == IF a >= b THEN a ELSE b

Min2(a, b) == IF a <= b THEN a ELSE b

Detectors == {"bagMenu", "tmCase", "shopBuyMenu", "itemStorageList"}

(* hide: BAGMENU_HIDE_CLOSE_BAG_MASK set in the flags the bag detector     *)
(* reads when the layout is not the FireRed one; no other detector has it  *)
ListCalls ==
    {c \in [detector : Detectors, scroll : 0..MaxScroll, row : 0..MaxRow,
            items : 0..MaxItems, shown : (0..MaxShown) \cup {TooMany},
            hide : BOOLEAN] :
        c.hide => c.detector = "bagMenu"}

Report(c, total, page, row, selected, start, end) ==
    [done |-> TRUE, reported |-> TRUE, total |-> total, page |-> page,
     cursorPosition |-> row, selectedIndex |-> selected,
     start |-> start, end |-> end]

NoReport == [done |-> TRUE, reported |-> FALSE]

get_bag_menu_state(c) ==
    LET num_shown_items == IF c.shown <= 0 \/ c.shown > 32 THEN 8 ELSE c.shown
        total_entries == c.items + (IF c.hide THEN 0 ELSE 1)
        sum == c.scroll + c.row
        selected_index == IF total_entries <= 0 THEN 0
                          ELSE IF sum >= total_entries THEN total_entries - 1
                          ELSE sum
        selected_row == IF total_entries <= 0 THEN 0
                        ELSE IF sum >= total_entries
                        THEN Max2(0, Min2(c.row, Max2(0, num_shown_items - 1)))
                        ELSE c.row
        start == IF total_entries > 0 /\ c.scroll >= total_entries
                 THEN Max2(0, total_entries - num_shown_items)
                 ELSE Max2(0, c.scroll)
        end == IF total_entries > 0
               THEN Min2(start + Max2(0, num_shown_items), total_entries)
               ELSE start + Max2(0, num_shown_items)
    IN Report(c, total_entries, num_shown_items, selected_row, selected_index, start, end)

get_tm_case_state(c) ==
    LET max_shown == IF c.shown <= 0 \/ c.shown > 8 THEN 5 ELSE c.shown
        total_entries == IF c.items + 1 <= 0 THEN 1 ELSE c.items + 1
        sum == c.scroll + c.row
        selected_index == IF sum >= total_entries THEN total_entries - 1 ELSE sum
        start == IF c.scroll >= total_entries
                 THEN Max2(0, total_entries - max_shown)
                 ELSE c.scroll
        end == Min2(total_entries, start + max_shown)
    IN Report(c, total_entries, max_shown, c.row, selected_index, start, end)

get_shop_buy_menu_state(c) ==
    LET items_showed == IF c.shown <= 0 \/ c.shown > 20 THEN 8 ELSE c.shown
        total_entries == c.items + 1
        sum == c.scroll + c.row
        selected_index == IF sum < 0 THEN 0
                          ELSE IF sum >= total_entries THEN total_entries - 1
                          ELSE sum
        start == Max2(0, c.scroll)
        end == Min2(total_entries, start + items_showed)
    IN IF total_entries <= 0 \/ total_entries > 1024
       THEN NoReport
       ELSE Report(c, total_entries, items_showed, c.row, selected_index, start, end)

(* n_items is at most PC_ITEMS_COUNT here; beyond it nothing is reported *)
get_item_storage_list_state(c) ==
    LET count == c.items + 1
        page_items == IF 1 <= c.shown /\ c.shown <= 6 THEN c.shown ELSE Min2(6, count)
        items_above == IF c.scroll >= count THEN Max2(0, count - 1) ELSE c.scroll
        in_page == IF c.row >= page_items THEN Max2(0, page_items - 1) ELSE c.row
        cursor_pos == IF items_above + in_page >= count
                      THEN Max2(0, (count - 1) - items_above)
                      ELSE in_page
        start == Max2(0, items_above)
        end == IF page_items > 0 THEN Min2(count, items_above + page_items) ELSE count
    IN IF count <= 0
       THEN NoReport
       ELSE Report(c, count, page_items, cursor_pos, items_above + cursor_pos, start, end)

ListInit ==
    /\ listCall \in ListCalls
    /\ listOut = [done |-> FALSE]
    /\ MetricsRest
    /\ BulkRest
    /\ MatchRest
    /\ BattleRest
    /\ TextRest
    /\ ScanRest
    /\ BytesRest
    /\ FogRest
    /\ DerefRest
    /\ ChoiceRest
    /\ RangeRest
    /\ CoreRest

GetBagMenuState ==
    /\ listCall.detector = "bagMenu"
    /\ ~ listOut.done
    /\ listOut' = get_bag_menu_state(listCall)
    /\ UNCHANGED <<listCall, listFrame>>

GetTmCaseState ==
    /\ listCall.detector = "tmCase"
    /\ ~ listOut.done
    /\ listOut' = get_tm_case_state(listCall)
    /\ UNCHANGED <<listCall, listFrame>>

GetShopBuyMenuState ==
    /\ listCall.detector = "shopBuyMenu"
    /\ ~ listOut.done
    /\ listOut' = get_shop_buy_menu_state(listCall)
    /\ UNCHANGED <<listCall, listFrame>>

GetItemStorageListState ==
    /\ listCall.detector = "itemStorageList"
    /\ ~ listOut.done
    /\ listOut' = get_item_storage_list_state(listCall)
    /\ UNCHANGED <<listCall, listFrame>>

ListNext ==
    \/ GetBagMenuState
    \/ GetTmCaseState
    \/ GetShopBuyMenuState
    \/ GetItemStorageListState

SpecList == ListInit /\ [][ListNext]_vars

-----------------------------------------------------------------------------
(* Properties of the list detectors *)

Reported == listOut.done /\ listOut.reported

(* C15: with total > 0 the reported selected index lies in [0, total) and  *)
(* is scroll + cursorRow whenever that sum lies in [0, total), for every   *)
(* list detector and all values read from memory.                          *)
C15_SelectedIndexClamped ==
    (Reported /\ listOut.total > 0) =>
        /\ 0 <= listOut.selectedIndex
        /\ listOut.selectedIndex < listOut.total
        /\ (listCall.scroll + listCall.row < listOut.total =>
               listOut.selectedIndex = listCall.scroll + listCall.row)

(* C16: the rendered rows [start, end) satisfy                             *)
(* 0 <= start <= end <= totalEntries and end - start <= pageSize, for all  *)
(* scroll offsets, page sizes and totals.                                  *)
C16_VisibleWindowClamped ==
    Reported =>
        /\ 0 <= listOut.start
        /\ listOut.start <= listOut.end
        /\ listOut.end <= listOut.total
        /\ listOut.end - listOut.start <= listOut.page

(* C26: when the bag, TM case or shop detector reports a list with at      *)
(* least one entry, the reported selected index lies inside the rendered   *)
(* rows [start, end).                                                      *)
C26_SelectionInsideWindow ==
    (Reported /\ listCall.detector \in {"bagMenu", "tmCase", "shopBuyMenu"}
              /\ listOut.total >= 1) =>
        /\ listOut.start <= listOut.selectedIndex
        /\ listOut.selectedIndex < listOut.end

-----------------------------------------------------------------------------
(* C30: in every result of get_dialog_state, menuType is null exactly when *)
(* inDialog is false.                                                      *)
C30_MenuTypeIffInDialog ==
    result.kind = "result" => (result.menuType = "None" <=> ~ result.inDialog)

(* The field controls are locked and the script waits for a button press,  *)
(* with no text, choice menu or save window to show: the result is a       *)
(* dialog without text.                                                    *)
C30_Witness ==
    /\ result.kind = "result"
    /\ result.via = "plainText"
    /\ mem.flags = {"fieldLocked", "waiting"}
    /\ result.visibleText = "None"
    /\ result.inDialog
    /\ result.menuType = "dialog"

-----------------------------------------------------------------------------
(* The fast path of get_dialog_state on a captured snapshot *)

(* the last call worked from a captured snapshot, taken from a memory with *)
(* the overworld callback, field controls free, the battle flag clear, no  *)
(* text printer active and neither the start-menu nor the yes/no window    *)
IdleOverworldSnapshot ==
    /\ result.kind # "pending"
    /\ LastBuffers.raw
    /\ mem.callback2 = "overworld"
    /\ mem.flags \cap {"fieldLocked", "inBattle", "printerWin0", "printerOther",
                       "startWin", "yesnoWin"} = {}

(* the call returned the none state from the fast path, before any         *)
(* detector of the chain was called                                        *)
NoneThroughFastPath ==
    /\ result.kind = "result"
    /\ result.fast
    /\ result.via = "fastPath"
    /\ result.menuType = "None"
    /\ ~ result.inDialog

(* C17 as stated: on such a snapshot get_dialog_state returns none through *)
(* the fast path, with no detector called after the fast-path check.       *)
C17_IdleOverworldFastPath == IdleOverworldSnapshot => NoneThroughFastPath

(* C17, amended: the same, for a snapshot in which moreover the save-info  *)
(* window is not visible (its window id is WINDOW_NONE or not below 32).   *)
C17_IdleOverworldNoSaveInfoFastPath ==
    (IdleOverworldSnapshot /\ "saveWin" \notin mem.flags) => NoneThroughFastPath

(* The fast path was taken on a captured snapshot while a task was active  *)
(* in the task table.                                                      *)
C17_Witness ==
    /\ IdleOverworldSnapshot
    /\ "saveWin" \notin mem.flags
    /\ mem.tasks # {}
    /\ snapshot = "full"
    /\ NoneThroughFastPath

(***************************************************************************)
(* The in-battle step of get_dialog_state: _detect_battle_ui_state picks   *)
(* the battler whose controller function is a registered input handler,    *)
(* _build_battle_ui_state builds the menu record of that battler and       *)
(* get_dialog_state copies it into its result.  Pointers are small         *)
(* numbers; each registered address list holds one even address, so that   *)
(* the address and the address with bit 0 set both match it.               *)
(***************************************************************************)
BATTLE_MAX_BATTLERS == 2   \* controller slots the detector walks
MaxFunc == 9               \* controller functions are pointers 0..MaxFunc
MaxCursor == 4             \* cursor registers hold 0..MaxCursor

BattlerIds == 0..(BATTLE_MAX_BATTLERS - 1)

BATTLE_PLAYER_HANDLE_YES_NO_INPUT_ADDRS == <<2>>

BATTLE_HANDLE_INPUT_CHOOSE_TARGET_ADDRS == <<4>>

BATTLE_HANDLE_INPUT_CHOOSE_MOVE_ADDRS == <<6>>

BATTLE_HANDLE_INPUT_CHOOSE_ACTION_ADDRS == <<8>>

priority_lists ==
    <<BATTLE_PLAYER_HANDLE_YES_NO_INPUT_ADDRS,
      BATTLE_HANDLE_INPUT_CHOOSE_TARGET_ADDRS,
      BATTLE_HANDLE_INPUT_CHOOSE_MOVE_ADDRS,
      BATTLE_HANDLE_INPUT_CHOOSE_ACTION_ADDRS>>

(* sort key of a target: battler b stands at position b, enemies (odd      *)
(* positions) in the top row with their flanks mirrored                    *)
target_grid_key(b) ==
    LET side == b % 2
        flank == (b \div 2) % 2
        screen_flank == IF side = 1 THEN 1 - flank ELSE flank
        row == IF side = 1 THEN 0 ELSE 1
    IN (row * 2) + screen_flank

RECURSIVE SortTargets(_)
SortTargets(S) ==
    IF S = {} THEN <<>>
    ELSE LET b == CHOOSE b \in S :
                      \A o \in S : target_grid_key(b) <= target_grid_key(o)
         IN <<b>> \o SortTargets(S \ {b})

BattleMenu(type, battler, cursor, options) ==
    [type |-> type, activeBattlerId |-> battler, cursorPosition |-> cursor,
     selectedOption |-> IF 0 <= cursor /\ cursor < Len(options)
                        THEN options[cursor + 1] ELSE "None",
     options |-> options]

NoBattleMenu == [type |-> "None"]

build_battle_ui_state(c, active_battler, controller_func, action_cursor, move_cursor) ==
    IF ptr_matches_any(controller_func, BATTLE_PLAYER_HANDLE_YES_NO_INPUT_ADDRS)
    THEN BattleMenu("battleYesNo", active_battler,
                    IF c.multi % 256 = 0 THEN 0 ELSE 1, <<"YES", "NO">>)
    ELSE IF ptr_matches_any(controller_func, BATTLE_HANDLE_INPUT_CHOOSE_TARGET_ADDRS)
    THEN LET max_id == IF 0 < c.count /\ c.count <= BATTLE_MAX_BATTLERS
                       THEN c.count ELSE BATTLE_MAX_BATTLERS
             targets == SortTargets({b \in 0..(max_id - 1) : b \notin c.absent})
             hits == {i \in 1..Len(targets) : targets[i] = c.multi % 256}
             cursor_index == IF hits = {} THEN 0
                             ELSE (CHOOSE i \in hits : \A j \in hits : i <= j) - 1
         IN BattleMenu("battleTarget", active_battler, cursor_index,
                       [i \in 1..Len(targets) |-> targets[i]])
    ELSE IF ptr_matches_any(controller_func, BATTLE_HANDLE_INPUT_CHOOSE_MOVE_ADDRS)
    THEN BattleMenu("battleMoves", active_battler,
                    IF move_cursor % 256 < 4 THEN move_cursor % 256 ELSE 0,
                    <<"move0", "move1", "move2", "move3">>)
    ELSE IF ptr_matches_any(controller_func, BATTLE_HANDLE_INPUT_CHOOSE_ACTION_ADDRS)
    THEN BattleMenu("battleActions", active_battler,
                    IF action_cursor % 256 < 4 THEN action_cursor % 256 ELSE 0,
                    IF c.safari THEN <<"BALL", "POKéBLOCK", "GO NEAR", "RUN">>
                    ELSE <<"FIGHT", "BAG", "POKéMON", "RUN">>)
    ELSE NoBattleMenu

(* the lowest battler whose controller function is in the list, or -1      *)
FirstBattler(funcs, addr_list) ==
    LET S == {b \in BattlerIds : ptr_matches_any(funcs[b], addr_list)}
    IN IF S = {} THEN -1 ELSE CHOOSE b \in S : \A o \in S : b <= o

(* the list the lowest matching battler matches *)
FirstListOfLowestBattler(funcs) ==
    LET S == {b \in BattlerIds :
                 \E k \in 1..Len(priority_lists) :
                     ptr_matches_any(funcs[b], priority_lists[k])}
        b == CHOOSE b \in S : \A o \in S : b <= o
    IN IF S = {} THEN 0
       ELSE CHOOSE k \in 1..Len(priority_lists) :
                ptr_matches_any(funcs[b], priority_lists[k])

(* the priority list that decides: the first one some battler matches      *)
FirstList(funcs) ==
    LET K == {k \in 1..Len(priority_lists) :
                 FirstBattler(funcs, priority_lists[k]) >= 0}
    IN IF K = {} THEN 0 ELSE CHOOSE k \in K : \A o \in K : k <= o

action_cursor_first(c, battler_id) == c.action[0]

action_cursor_of(c, battler_id) == c.action[battler_id]

detect_battle_ui_state(c) ==
    IF FirstList(c.funcs) > 0
    THEN LET battler_id == FirstBattler(c.funcs, priority_lists[FirstList(c.funcs)])
         IN build_battle_ui_state(c, battler_id, c.funcs[battler_id],
                                  action_cursor_of(c, battler_id), c.move[battler_id])
    ELSE LET battler_id == IF c.fallback % 256 >= BATTLE_MAX_BATTLERS
                           THEN 0 ELSE c.fallback % 256
         IN IF c.script = "yesnobox"
            THEN BattleMenu("battleYesNo", battler_id,
                            IF c.comm = 0 THEN 0 ELSE 1, <<"YES", "NO">>)
            ELSE IF c.bg0 = "height"
            THEN build_battle_ui_state(c, battler_id,
                                       BATTLE_HANDLE_INPUT_CHOOSE_ACTION_ADDRS[1],
                                       action_cursor_of(c, battler_id), c.move[battler_id])
            ELSE IF c.bg0 = "twice"
            THEN build_battle_ui_state(c, battler_id,
                                       BATTLE_HANDLE_INPUT_CHOOSE_MOVE_ADDRS[1],
                                       action_cursor_of(c, battler_id), c.move[battler_id])
            ELSE NoBattleMenu

(* what get_dialog_state reports of the battle step                        *)
battle_step(c) ==
    LET ui_state == detect_battle_ui_state(c)
    IN [done |-> TRUE,
        menuType |-> IF ui_state.type # "None" THEN ui_state.type ELSE "battle",
        battleUi |-> ui_state]

(* script: what gBattleScriptCurrInstr points at (null pointer, a yes/no   *)
(* box command, another command, an address the bridge cannot read);       *)
(* bg0: gBattle_BG0_Y as DISPLAY_HEIGHT, twice DISPLAY_HEIGHT or another   *)
Scripts == {"null", "yesnobox", "other", "unreadable"}

Bg0s == {"height", "twice", "other"}

CursorArrays == [BattlerIds -> 0..MaxCursor]

FlatArrays == {[b \in BattlerIds |-> v] : v \in 0..1}

(* cursor registers of which only the one the fallback reads is not 0      *)
OneCursor(fb, v) == [b \in BattlerIds |-> IF b = fb THEN v ELSE 0]

FuncArrays(k) == {f \in [BattlerIds -> 0..MaxFunc] : FirstList(f) = k}

BattleCall(f, a, m, u, s, n, x, p, o, g, fb) ==
    [funcs |-> f, action |-> a, move |-> m, multi |-> u, safari |-> s,
     count |-> n, absent |-> x, script |-> p, comm |-> o, bg0 |-> g,
     fallback |-> fb]

(* The registers the deciding branch reads take every value; of the        *)
(* others, the action cursors take two flat arrays (none with a target     *)
(* menu) and the rest stay 0.                                              *)
(* Without a matching controller the fallback reads one battler's cursor.  *)
(* k is the priority list that decides, 0 when no controller matches.      *)
BattleCalls(k) ==
    CASE k = 1 ->
        {BattleCall(f, a, a, u, FALSE, 2, {}, "null", 0, "other", 0) :
            f \in FuncArrays(k), a \in FlatArrays, u \in 0..MaxCursor}
      [] k = 2 ->
        {BattleCall(f, OneCursor(0, 0), OneCursor(0, 0), u, FALSE, n, x, "null", 0, "other", 0) :
            f \in FuncArrays(k), u \in 0..MaxCursor,
            n \in 0..(BATTLE_MAX_BATTLERS + 1), x \in SUBSET BattlerIds}
      [] k = 3 ->
        {BattleCall(f, a, m, 0, FALSE, 2, {}, "null", 0, "other", 0) :
            f \in FuncArrays(k), a \in FlatArrays, m \in CursorArrays}
      [] k = 4 ->
        {BattleCall(f, a, a, 0, s, n, {}, "null", 0, "other", 0) :
            f \in FuncArrays(k), a \in CursorArrays, s \in BOOLEAN,
            n \in 1..BATTLE_MAX_BATTLERS}
      [] OTHER ->
        {BattleCall(f, OneCursor(fb, v), OneCursor(fb, v), 0, s, 2, {}, p, o, g, fb) :
            f \in FuncArrays(k), v \in 0..MaxCursor, s \in BOOLEAN, p \in Scripts,
            o \in 0..1, g \in Bg0s, fb \in 0..BATTLE_MAX_BATTLERS}

BattleInit ==
    /\ \E k \in 0..Len(priority_lists) : battleCall \in BattleCalls(k)
    /\ battleOut = [done |-> FALSE]
    /\ MetricsRest
    /\ BulkRest
    /\ MatchRest
    /\ ListRest
    /\ TextRest
    /\ ScanRest
    /\ BytesRest
    /\ FogRest
    /\ DerefRest
    /\ ChoiceRest
    /\ RangeRest
    /\ CoreRest

DetectBattleUiState ==
    /\ ~ battleOut.done
    /\ battleOut' = battle_step(battleCall)
    /\ UNCHANGED <<battleCall, battleFrame>>

BattleNext == DetectBattleUiState

SpecBattle == BattleInit /\ [][BattleNext]_vars

(* the battlers whose controller function is a registered choose-action    *)
(* address                                                                 *)
ChooseActionBattlers ==
    {b \in BattlerIds :
        ptr_matches_any(battleCall.funcs[b], BATTLE_HANDLE_INPUT_CHOOSE_ACTION_ADDRS)}

ActionsWithBag ==
    /\ battleOut.menuType = "battleActions"
    /\ battleOut.battleUi.options = <<"FIGHT", "BAG", "POKéMON", "RUN">>
    /\ battleOut.battleUi.cursorPosition = 1
    /\ battleOut.battleUi.selectedOption = "BAG"

(* C18 (as written): with battlersCount 2, no absent battler, one battler  *)
(* whose controller function is a choose-action address, cursor register 0 *)
(* holding 1 and no safari flag, the battle step reports battleActions     *)
(* with FIGHT/BAG/POKéMON/RUN, cursorPosition 1 and selectedOption BAG.    *)
C18_ActionMenuFromCursorZero ==
    (/\ battleOut.done
     /\ battleCall.count = 2
     /\ battleCall.absent = {}
     /\ ChooseActionBattlers # {}
     /\ battleCall.action[0] = 1
     /\ ~ battleCall.safari)
    => ActionsWithBag

(* C18 (amended): the same, when no controller function matches a yes/no,  *)
(* target or move address and the cursor register that holds 1 is the one  *)
(* of the lowest battler whose controller function matches.                *)
C18_ActionMenuFromMatchingBattler ==
    \A b \in BattlerIds :
        (/\ battleOut.done
         /\ battleCall.count = 2
         /\ battleCall.absent = {}
         /\ b \in ChooseActionBattlers
         /\ \A o \in BattlerIds :
               /\ o < b => o \notin ChooseActionBattlers
               /\ \A k \in 1..3 : ~ ptr_matches_any(battleCall.funcs[o], priority_lists[k])
         /\ battleCall.action[b] = 1
         /\ ~ battleCall.safari)
        => ActionsWithBag

C18_Witness ==
    /\ battleOut.done
    /\ battleCall.count = 2
    /\ battleCall.absent = {}
    /\ ChooseActionBattlers = {1}
    /\ battleCall.action = [b \in BattlerIds |-> b]
    /\ ~ battleCall.safari
    /\ ActionsWithBag
    /\ battleOut.battleUi.activeBattlerId = 1

(* the battlers whose controller function is in priority list k *)
Matching(k) ==
    {b \in BattlerIds : ptr_matches_any(battleCall.funcs[b], priority_lists[k])}

MenuKinds == <<"battleYesNo", "battleTarget", "battleMoves", "battleActions">>

(* a cursor register as the move and action menus report it *)
GridCursor(v) == IF v < 4 THEN v ELSE 0

(* C28: the battle menu is of the kind of the first of the lists yes/no,   *)
(* target, move, action that any battler's controller function matches,    *)
(* even when a lower-numbered battler matches a later list; the reported   *)
(* battler matches that list and the cursor is the one of that battler;    *)
(* the script and BG0 fallbacks decide only when no battler matches.       *)
C28_PriorityOverAllBattlers ==
    battleOut.done =>
        /\ \A k \in 1..Len(priority_lists) :
              (Matching(k) # {} /\ \A j \in 1..(k - 1) : Matching(j) = {}) =>
                 /\ battleOut.battleUi.type = MenuKinds[k]
                 /\ battleOut.battleUi.activeBattlerId \in Matching(k)
                 /\ k = 3 => battleOut.battleUi.cursorPosition
                       = GridCursor(battleCall.move[battleOut.battleUi.activeBattlerId])
                 /\ k = 4 => battleOut.battleUi.cursorPosition
                       = GridCursor(battleCall.action[battleOut.battleUi.activeBattlerId])
        /\ (\A k \in 1..Len(priority_lists) : Matching(k) = {}) =>
              /\ battleOut.battleUi.type = "battleYesNo" <=> battleCall.script = "yesnobox"
              /\ battleOut.battleUi.type = "None" <=>
                    (battleCall.script # "yesnobox" /\ battleCall.bg0 = "other")

(* Battler 0 chooses a move with its cursor on 1, battler 1 answers a      *)
(* yes/no box: the yes/no menu of battler 1 is reported.                   *)
C28_Witness ==
    /\ battleOut.done
    /\ 0 \in Matching(3)
    /\ 1 \in Matching(1)
    /\ battleCall.multi = 1
    /\ battleOut.battleUi.type = "battleYesNo"
    /\ battleOut.battleUi.activeBattlerId = 1
    /\ battleOut.battleUi.selectedOption = "NO"

(***************************************************************************)
(* Game text: decode_gba_string and get_full_dialog_text.  A buffer is a   *)
(* sequence of bytes out of TextBytes: one letter, the line break, the two *)
(* prompt bytes, the two control-code bytes and the terminator.  A decoded *)
(* text is the sequence of its characters.                                 *)
(***************************************************************************)
MaxText == 4    \* buffers hold at most MaxText bytes

TEXT_TERMINATOR == 255

PROMPT_CHARS == {250, 251}

TextBytes == {187, 254, 252, 253, TEXT_TERMINATOR} \cup PROMPT_CHARS

(* GBA_CHARMAP.get(byte), "None" for a byte the table does not hold        *)
GBA_CHARMAP(byte) ==
    CASE byte = 187 -> "A"
      [] byte = 254 -> "\n"
      [] OTHER -> "None"

StopsNowhere(byte, stop_at_prompt) == FALSE

(* the two breaks of the decoding loop                                     *)
StopsAt(byte, stop_at_prompt) ==
    \/ byte = TEXT_TERMINATOR
    \/ stop_at_prompt /\ byte \in PROMPT_CHARS

(* the loop of decode_gba_string from index i (counted from 0)             *)
RECURSIVE DecodeFrom(_, _, _, _)
DecodeFrom(raw_bytes, i, max_len, stop_at_prompt) ==
    IF ~ (i < Len(raw_bytes) /\ i < max_len) THEN <<>>
    ELSE LET byte == raw_bytes[i + 1]
         IN IF StopsAt(byte, stop_at_prompt) THEN <<>>
            ELSE IF byte = 252 \/ byte = 253
            THEN DecodeFrom(raw_bytes, i + 2, max_len, stop_at_prompt)
            ELSE (IF GBA_CHARMAP(byte) # "None" THEN <<GBA_CHARMAP(byte)>> ELSE <<>>)
                 \o DecodeFrom(raw_bytes, i + 1, max_len, stop_at_prompt)

decode_gba_string(raw_bytes, max_len, stop_at_prompt) ==
    strip(DecodeFrom(raw_bytes, 0, max_len, stop_at_prompt))

(* the pages a page-splitting loop at index i (from 1) has yet to append,  *)
(* current_page being the bytes collected since the last prompt            *)
PageOf(current_page) ==
    IF current_page # <<>> /\ decode_gba_string(current_page, 200, FALSE) # <<>>
    THEN <<decode_gba_string(current_page, 200, FALSE)>>
    ELSE <<>>

RECURSIVE PagesFrom(_, _, _)
PagesFrom(raw, i, current_page) ==
    IF i > Len(raw) \/ raw[i] = TEXT_TERMINATOR THEN PageOf(current_page)
    ELSE IF raw[i] \in PROMPT_CHARS
    THEN PageOf(current_page) \o PagesFrom(raw, i + 1, <<>>)
    ELSE PagesFrom(raw, i + 1, Append(current_page, raw[i]))

NoText == [done |-> TRUE, found |-> FALSE]

(* source: the buffer is passed in ("raw"), read from the bridge ("live")  *)
(* or the bridge read raises ("fail")                                      *)
get_full_dialog_text(c) ==
    IF c.source = "fail" \/ c.raw = <<>> THEN NoText
    ELSE LET pages == PagesFrom(c.raw, 1, <<>>)
         IN IF pages = <<>> THEN NoText
            ELSE [done |-> TRUE, found |-> TRUE, pages |-> pages,
                  pageCount |-> Len(pages), fullText |-> Join(pages, "\n")]

TextBuffers == UNION {[1..n -> TextBytes] : n \in 0..MaxText}

TextCalls(fn) ==
    IF fn = "decode_gba_string"
    THEN [fn : {fn}, raw : TextBuffers, max_len : {2, 200}, stop_at_prompt : BOOLEAN]
    ELSE [fn : {fn}, raw : TextBuffers, source : {"raw", "live", "fail"}]

TextInit ==
    /\ \E fn \in {"decode_gba_string", "get_full_dialog_text"} : textCall \in TextCalls(fn)
    /\ textOut = [done |-> FALSE]
    /\ MetricsRest
    /\ BulkRest
    /\ MatchRest
    /\ ListRest
    /\ BattleRest
    /\ ScanRest
    /\ BytesRest
    /\ FogRest
    /\ DerefRest
    /\ ChoiceRest
    /\ RangeRest
    /\ CoreRest

DecodeGbaString ==
    /\ ~ textOut.done
    /\ textCall.fn = "decode_gba_string"
    /\ textOut' = [done |-> TRUE,
                   text |-> decode_gba_string(textCall.raw, textCall.max_len,
                                              textCall.stop_at_prompt)]
    /\ UNCHANGED <<textCall, textFrame>>

GetFullDialogText ==
    /\ ~ textOut.done
    /\ textCall.fn = "get_full_dialog_text"
    /\ textOut' = get_full_dialog_text(textCall)
    /\ UNCHANGED <<textCall, textFrame>>

TextNext == DecodeGbaString \/ GetFullDialogText

SpecText == TextInit /\ [][TextNext]_vars

Decoded == textOut.done /\ textCall.fn = "decode_gba_string"

(* the first byte of the buffer that is the terminator or, when the call   *)
(* stops at prompts, a prompt (0: there is none)                           *)
FirstStopByte ==
    LET S == {i \in 1..Len(textCall.raw) :
                 \/ textCall.raw[i] = 255
                 \/ textCall.stop_at_prompt /\ textCall.raw[i] \in {250, 251}}
    IN IF S = {} THEN 0 ELSE CHOOSE i \in S : \A j \in S : i <= j

(* the same, passing over the two bytes of every control sequence          *)
RECURSIVE FirstStopFrom(_)
FirstStopFrom(i) ==
    IF i > Len(textCall.raw) THEN 0
    ELSE IF \/ textCall.raw[i] = 255
            \/ textCall.stop_at_prompt /\ textCall.raw[i] \in {250, 251}
    THEN i
    ELSE IF textCall.raw[i] \in {252, 253} THEN FirstStopFrom(i + 2)
    ELSE FirstStopFrom(i + 1)

(* the text is the one the bytes before position p decode to on their own  *)
NothingFrom(p) ==
    textOut.text = decode_gba_string(SubSeq(textCall.raw, 1, p - 1),
                                     textCall.max_len, textCall.stop_at_prompt)

ParticularCases ==
    /\ textCall.raw = <<255>> => textOut.text = <<>>
    /\ (textCall.raw = <<250, 187>> /\ textCall.stop_at_prompt) => textOut.text = <<>>

(* C19 (as written): decoding stops at the first terminator byte and, when *)
(* stop-at-prompt is requested, at the first prompt byte: no byte at or    *)
(* after it contributes a character; decode([terminator]) and              *)
(* decode([prompt, 'A'], stopAtPrompt) are empty.                          *)
C19_StopsAtFirstStopByte ==
    Decoded => /\ FirstStopByte > 0 => NothingFrom(FirstStopByte)
               /\ ParticularCases

(* C19 (amended): the same for the first terminator or prompt byte that is *)
(* not the operand of a two-byte control sequence.                         *)
C19_StopsAtFirstStopOutsideControl ==
    Decoded => /\ FirstStopFrom(1) > 0 => NothingFrom(FirstStopFrom(1))
               /\ ParticularCases

C19_Witness ==
    /\ Decoded
    /\ textCall.raw = <<187, 250, 187, 255>>
    /\ textCall.stop_at_prompt
    /\ textCall.max_len = 200
    /\ FirstStopFrom(1) = 2
    /\ textOut.text = <<"A">>

PagesReturned ==
    textOut.done /\ textCall.fn = "get_full_dialog_text" /\ textOut.found

(* the prompt bytes from position i up to the first terminator that are    *)
(* not one of the two bytes of a control sequence                          *)
RECURSIVE SeparatorsFrom(_)
SeparatorsFrom(i) ==
    IF i > Len(textCall.raw) \/ textCall.raw[i] = 255 THEN 0
    ELSE IF textCall.raw[i] \in {252, 253} THEN SeparatorsFrom(i + 2)
    ELSE IF textCall.raw[i] \in {250, 251} THEN 1 + SeparatorsFrom(i + 1)
    ELSE SeparatorsFrom(i + 1)

(* C20: page extraction splits what precedes the first terminator at the   *)
(* prompt bytes: no returned page is empty, pageCount is the number of     *)
(* pages, and no byte of a two-byte control sequence separates two pages   *)
(* (there is at most one page more than there are prompt bytes outside     *)
(* control sequences).                                                     *)
C20_PagesSplitAtPrompts ==
    PagesReturned =>
        /\ \A k \in 1..Len(textOut.pages) : textOut.pages[k] # <<>>
        /\ textOut.pageCount = Len(textOut.pages)
        /\ Len(textOut.pages) <= 1 + SeparatorsFrom(1)

(***************************************************************************)
(* find_active_textprinter_text: the scan of the text printers.  A slot    *)
(* holds its active flag and where its current pointer leads: null, one of *)
(* the named text buffers, EWRAM/IWRAM, ROM or no readable region.  snap   *)
(* and live tell whether the page at the pointer decodes to more than two  *)
(* characters in the captured buffer and in the memory read at the         *)
(* pointer.  Slot i prints window i.                                       *)
(***************************************************************************)
NumSlots == 2    \* text printer slots 0..NumSlots-1 (the game has 32)

SlotIds == 0..(NumSlots - 1)

CapturedBuffers == {"gDisplayedStringBattle", "gStringVar4"}

PointerTargets ==
    CapturedBuffers \cup {"null", "gStringVar1", "gBattleTextBuff1", "ewram", "rom", "nowhere"}

score(window_id, target) ==
    (IF window_id = 0 THEN 100 ELSE 0)
    + (CASE target = "gDisplayedStringBattle" -> 90
         [] target = "gStringVar4" -> 80
         [] target = "gStringVar1" -> 70
         [] target = "gBattleTextBuff1" -> 60
         [] target = "rom" -> 20
         [] target = "ewram" -> 40
         [] OTHER -> 0)

(* candidates.sort(key=score, reverse=True): stable, so slots of equal     *)
(* score keep their slot order                                             *)
RECURSIVE SortCandidates(_, _)
SortCandidates(S, slots) ==
    IF S = {} THEN <<>>
    ELSE LET first == CHOOSE i \in S : \A j \in S :
                          \/ score(i, slots[i].target) > score(j, slots[j].target)
                          \/ /\ score(i, slots[i].target) = score(j, slots[j].target)
                             /\ i <= j
         IN <<first>> \o SortCandidates(S \ {first}, slots)

TextOf(i, from) == [kind |-> "text", slot |-> i, from |-> from]

NoTextFound == [kind |-> "none"]

ScanRaised == [kind |-> "raised"]

(* one turn of the loop of _decode_best for the candidate of slot i: the   *)
(* captured buffer first, then _extract_visible_text_from_ptr              *)
DecodeCandidate(c, i) ==
    IF c.slots[i].target \in CapturedBuffers /\ c.slots[i].snap
    THEN TextOf(i, "snap")
    ELSE IF c.slots[i].target = "nowhere" THEN NoTextFound
    ELSE IF c.net = "down" THEN ScanRaised
    ELSE IF c.slots[i].live THEN TextOf(i, "live")
    ELSE NoTextFound

RECURSIVE decode_best(_, _)
decode_best(c, candidates) ==
    IF candidates = <<>> THEN NoTextFound
    ELSE LET text == DecodeCandidate(c, Head(candidates))
         IN IF text.kind # "none" THEN text
            ELSE decode_best(c, Tail(candidates))

(* mode "slow": text_printers_raw is None, the printer headers and the two *)
(* buffers are read from the bridge first; an exception anywhere in the    *)
(* function is caught and None returned                                    *)
textprinter_scan(c) ==
    IF c.mode = "slow" /\ c.net = "down" THEN NoTextFound
    ELSE LET active == {i \in SlotIds : c.slots[i].active /\ c.slots[i].target # "null"}
             text == decode_best(c, SortCandidates(active, c.slots))
             again == IF text.kind = "none" /\ c.include_inactive_window0
                         /\ c.slots[0].target # "null"
                      THEN decode_best(c, <<0>>)
                      ELSE text
         IN IF again.kind = "raised" THEN NoTextFound ELSE again

(* an inactive slot other than slot 0 is never looked at: its pointer is   *)
(* left null; snap is drawn for the captured buffers only, live for the    *)
(* targets that are read                                                   *)
ScanSlots ==
    {s \in [active : BOOLEAN, target : PointerTargets, snap : BOOLEAN, live : BOOLEAN] :
        /\ s.snap => s.target \in CapturedBuffers
        /\ s.live => s.target \notin {"null", "nowhere"}}

ScanCalls ==
    {c \in [slots : [SlotIds -> ScanSlots], mode : {"snapshot", "slow"},
            net : {"ok", "down"}, include_inactive_window0 : BOOLEAN] :
        \A i \in SlotIds : (i > 0 /\ ~ c.slots[i].active) => c.slots[i].target = "null"}

ScanInit ==
    /\ scanCall \in ScanCalls
    /\ scanOut = [kind |-> "pending"]
    /\ MetricsRest
    /\ BulkRest
    /\ MatchRest
    /\ ListRest
    /\ BattleRest
    /\ TextRest
    /\ BytesRest
    /\ FogRest
    /\ DerefRest
    /\ ChoiceRest
    /\ RangeRest
    /\ CoreRest

FindActiveTextprinterText ==
    /\ scanOut.kind = "pending"
    /\ scanOut' = textprinter_scan(scanCall)
    /\ UNCHANGED <<scanCall, scanFrame>>

ScanNext == FindActiveTextprinterText

SpecScan == ScanInit /\ [][ScanNext]_vars

(* the candidates of the active slots whose page decodes to more than two  *)
(* characters, in the captured buffer or in the memory the bridge returns  *)
Qualifying ==
    {i \in SlotIds :
        /\ scanCall.slots[i].active
        /\ scanCall.slots[i].target # "null"
        /\ \/ scanCall.slots[i].target \in CapturedBuffers /\ scanCall.slots[i].snap
           \/ scanCall.net = "ok" /\ scanCall.slots[i].live}

Outranks(i, j) ==
    \/ score(i, scanCall.slots[i].target) > score(j, scanCall.slots[j].target)
    \/ /\ score(i, scanCall.slots[i].target) = score(j, scanCall.slots[j].target)
       /\ i < j

(* C21: scanning the active slots only (include_inactive_window0 not set), *)
(* the scanner returns the text of the qualifying candidate that no other  *)
(* qualifying candidate outranks, and reports no text exactly when no      *)
(* candidate qualifies.                                                    *)
C21_FirstQualifyingCandidate ==
    (scanOut.kind # "pending" /\ ~ scanCall.include_inactive_window0) =>
        IF Qualifying = {} THEN scanOut.kind = "none"
        ELSE /\ scanOut.kind = "text"
             /\ scanOut.slot \in Qualifying
             /\ \A j \in Qualifying : ~ Outranks(j, scanOut.slot)

(***************************************************************************)
(* util/bytes.py: _u8_from, _u16le_from, _u32le_from.  A value is the set  *)
(* of the positions of its one bits (bit 0 the lowest), so that a 32-bit   *)
(* result is built as the code builds it, by shifts and bitwise or.        *)
(***************************************************************************)
MaxRaw == 5    \* slices hold at most MaxRaw bytes

SliceBytes == {0, 1, 255}

ByteBits(b) == {k \in 0..7 : (b \div (2 ^ k)) % 2 = 1}

ShiftNone(bits, s) == bits

(* bits << s *)
ShiftLeft(bits, s) == {k + s : k \in bits}

u8_from(raw, offset) ==
    IF offset < 0 \/ offset >= Len(raw) THEN {}
    ELSE ByteBits(raw[offset + 1])

u16le_from(raw, offset) ==
    IF offset < 0 \/ (offset + 1) >= Len(raw) THEN {}
    ELSE ByteBits(raw[offset + 1]) \cup ShiftLeft(ByteBits(raw[offset + 2]), 8)

u32le_from(raw, offset) ==
    IF offset < 0 \/ (offset + 3) >= Len(raw) THEN {}
    ELSE ByteBits(raw[offset + 1])
         \cup ShiftLeft(ByteBits(raw[offset + 2]), 8)
         \cup ShiftLeft(ByteBits(raw[offset + 3]), 16)
         \cup ShiftLeft(ByteBits(raw[offset + 4]), 24)

BytesCalls ==
    [fn : {"_u8_from", "_u16le_from", "_u32le_from"},
     raw : UNION {[1..n -> SliceBytes] : n \in 0..MaxRaw},
     offset : (0 - 1)..(MaxRaw + 1)]

BytesInit ==
    /\ bytesCall \in BytesCalls
    /\ bytesOut = [done |-> FALSE]
    /\ MetricsRest
    /\ BulkRest
    /\ MatchRest
    /\ ListRest
    /\ BattleRest
    /\ TextRest
    /\ ScanRest
    /\ FogRest
    /\ DerefRest
    /\ ChoiceRest
    /\ RangeRest
    /\ CoreRest

U8From ==
    /\ ~ bytesOut.done
    /\ bytesCall.fn = "_u8_from"
    /\ bytesOut' = [done |-> TRUE, bits |-> u8_from(bytesCall.raw, bytesCall.offset)]
    /\ UNCHANGED <<bytesCall, bytesFrame>>

U16leFrom ==
    /\ ~ bytesOut.done
    /\ bytesCall.fn = "_u16le_from"
    /\ bytesOut' = [done |-> TRUE, bits |-> u16le_from(bytesCall.raw, bytesCall.offset)]
    /\ UNCHANGED <<bytesCall, bytesFrame>>

U32leFrom ==
    /\ ~ bytesOut.done
    /\ bytesCall.fn = "_u32le_from"
    /\ bytesOut' = [done |-> TRUE, bits |-> u32le_from(bytesCall.raw, bytesCall.offset)]
    /\ UNCHANGED <<bytesCall, bytesFrame>>

BytesNext == U8From \/ U16leFrom \/ U32leFrom

SpecBytes == BytesInit /\ [][BytesNext]_vars

Width ==
    CASE bytesCall.fn = "_u8_from" -> 1
      [] bytesCall.fn = "_u16le_from" -> 2
      [] OTHER -> 4

(* C22: every call returns (none raises); the result is 0 when the offset  *)
(* is negative or offset + width exceeds the length of the slice, and      *)
(* otherwise the little-endian value of the width bytes from the offset:   *)
(* byte k of the result is the byte at offset + k, and no higher bit is    *)
(* set.                                                                    *)
C22_LittleEndianOrZero ==
    bytesOut.done =>
        IF bytesCall.offset < 0 \/ bytesCall.offset + Width > Len(bytesCall.raw)
        THEN bytesOut.bits = {}
        ELSE /\ \A k \in 0..(Width - 1) :
                   {j \in 0..7 : (8 * k) + j \in bytesOut.bits}
                       = ByteBits(bytesCall.raw[bytesCall.offset + k + 1])
             /\ \A j \in bytesOut.bits : j < 8 * Width

C22_Witness ==
    /\ bytesOut.done
    /\ bytesCall.fn = "_u32le_from"
    /\ bytesCall.raw = <<255, 1, 0, 255, 1>>
    /\ bytesCall.offset = 1
    /\ bytesOut.bits = {0, 24} \cup (16..23)

(***************************************************************************)
(* fog_of_war.py: the stored grid of one map.  A grid is its width, its    *)
(* height and the set of its discovered cells; the file is absent, holds   *)
(* text that is no JSON ("corrupt"), JSON that is no grid ("notgrid") or a *)
(* grid.  A grid without rows is stored as [] and read back with width 0.  *)
(***************************************************************************)
MaxDim == 2    \* maps are at most MaxDim wide and high

Cells(w, h) == (0..(w - 1)) \X (0..(h - 1))

init_grid(width, height) ==
    [w |-> IF width > 0 THEN width ELSE 0, h |-> IF height > 0 THEN height ELSE 0,
     known |-> {}]

(* json.dump / json.load of a grid *)
Stored(grid) == IF grid.h = 0 THEN [grid EXCEPT !.w = 0] ELSE grid

is_valid_grid(grid, width, height) ==
    grid.h = height /\ (grid.h > 0 => grid.w = width)

(* save_grid: the grid is written to a temporary file that replaces the    *)
(* stored one                                                              *)
save_grid(file, grid) == [file EXCEPT !.kind = "grid", !.grid = Stored(grid)]

(* the updater callback discovers the cells of `seen` that lie on the grid *)
Updated(grid, seen) == [grid EXCEPT !.known = @ \cup (seen \cap Cells(grid.w, grid.h))]

load_or_init_grid(file, width, height) ==
    IF file.kind = "grid" /\ is_valid_grid(file.grid, width, height)
    THEN [file |-> file, grid |-> file.grid]
    ELSE [file |-> save_grid(file, init_grid(width, height)),
          grid |-> init_grid(width, height)]

update_grid(file, width, height, persist, seen) ==
    LET expected_w == IF width > 0 THEN width ELSE 0
        expected_h == IF height > 0 THEN height ELSE 0
        fresh == init_grid(expected_w, expected_h)
        matches == file.kind = "grid"
                   /\ <<file.grid.w, file.grid.h>> = <<expected_w, expected_h>>
        shape_mismatch == file.kind = "grid" /\ ~ matches
        should_persist == persist /\ ~ shape_mismatch
        moved == IF file.kind \in {"corrupt", "notgrid"} /\ persist
                 THEN [file EXCEPT !.kind = "absent", !.backup = TRUE]
                 ELSE file
        grid == Updated(IF matches THEN file.grid ELSE fresh, seen)
    IN [file |-> IF should_persist THEN save_grid(moved, grid) ELSE moved,
        grid |-> grid]

Grids ==
    {g \in [w : 0..MaxDim, h : 0..MaxDim, known : SUBSET Cells(MaxDim, MaxDim)] :
        g.known \subseteq Cells(g.w, g.h)}

NoGrid == init_grid(0, 0)

FogInit ==
    /\ fogFile \in {[kind |-> k, grid |-> NoGrid, backup |-> FALSE] :
                       k \in {"absent", "corrupt", "notgrid"}}
               \cup {[kind |-> "grid", grid |-> Stored(g), backup |-> FALSE] : g \in Grids}
    /\ fogOut = [op |-> "none"]
    /\ MetricsRest
    /\ BulkRest
    /\ MatchRest
    /\ ListRest
    /\ BattleRest
    /\ TextRest
    /\ ScanRest
    /\ BytesRest
    /\ DerefRest
    /\ ChoiceRest
    /\ RangeRest
    /\ CoreRest

LoadOrInitGrid ==
    \E width, height \in 0..MaxDim :
        LET r == load_or_init_grid(fogFile, width, height)
        IN /\ fogFile' = r.file
           /\ fogOut' = [op |-> "load_or_init_grid", width |-> width,
                         height |-> height, grid |-> r.grid]
           /\ UNCHANGED fogFrame

UpdateGrid ==
    \E width, height \in 0..MaxDim, persist \in BOOLEAN,
       seen \in {{}} \cup {{c} : c \in Cells(MaxDim, MaxDim)} :
        LET r == update_grid(fogFile, width, height, persist, seen)
        IN /\ fogFile' = r.file
           /\ fogOut' = [op |-> "update_grid", width |-> width,
                         height |-> height, grid |-> r.grid]
           /\ UNCHANGED fogFrame

FogNext == LoadOrInitGrid \/ UpdateGrid

SpecFog == FogInit /\ [][FogNext]_vars

(* C23: a call made while the stored file holds a valid grid of another    *)
(* width or height than the live map's leaves the stored file as it was.   *)
C23_MismatchKeepsStoredFile ==
    [][(/\ fogFile.kind = "grid"
        /\ <<fogFile.grid.w, fogFile.grid.h>> # <<fogOut'.width, fogOut'.height>>)
       => fogFile' = fogFile]_vars

(* C24: the segments of a snapshot built by from_ranges are ordered by     *)
(* start address, pairwise non-overlapping and without a zero address, and *)
(* the search on start <= addr selects a segment for every address that    *)
(* some captured segment contains.                                         *)
C24_SegmentsOrderedDisjoint ==
    /\ \A i, j \in 1..Len(segments) :
           i < j => /\ segments[i].start <= segments[j].start
                    /\ SegEnd(segments[i]) <= segments[j].start
    /\ \A i \in 1..Len(segments) : segments[i].start # 0
    /\ \A addr \in 0..(MaxAddr + MaxSize) :
           (\E i \in 1..Len(segments) :
                segments[i].start <= addr /\ addr < SegEnd(segments[i]))
           => segment_for(segments, addr, 1) # 0


(***************************************************************************)
(* Pointers read out of observed memory and followed by a detector: the    *)
(* battle script pointer (battle.py), the option order pointer of the      *)
(* player PC menu and the item list pointer of the shop (menus.py).  A     *)
(* pointer is 0 (null), an address inside a memory region or one outside;  *)
(* what the bridge answers to the read at the pointer is an input.         *)
(***************************************************************************)
MaxPointer == 3    \* pointers are 0..MaxPointer
MaxShopItems == 2  \* the shop sells at most MaxShopItems items

Pointers == 0..MaxPointer

InMemoryRange(p) == p = 2

NotFollowed == [recognized |-> FALSE, reads |-> {}]

(* _detect_battle_ui_state, the battle script fallback: the yes/no record  *)
(* is returned when the opcode at the script pointer is a yesnobox command *)
script_yes_no(c) ==
    IF c.script_ptr # 0
    THEN [recognized |-> c.read = "yesnobox", reads |-> {c.script_ptr}]
    ELSE NotFollowed

(* get_player_pc_menu_state up to the three labels it looks for *)
player_pc_order(c) ==
    IF ~ c.task \/ c.num <= 0 \/ c.num > 8 \/ c.order_ptr = 0
    THEN NotFollowed
    ELSE [recognized |-> c.read # "raises" /\ c.labels, reads |-> {c.order_ptr}]

(* get_shop_buy_menu_state, the rows of the visible window: every row but  *)
(* CANCEL is read at item_list_ptr + idx * 2                               *)
shop_buy_rows(c) ==
    LET total_entries == c.shop_item_count + 1
        start == IF c.scroll_offset > 0 THEN c.scroll_offset ELSE 0
        end == IF total_entries < start + c.items_showed
               THEN total_entries ELSE start + c.items_showed
        item_rows == {idx \in start..(end - 1) : idx # c.shop_item_count}
    IN IF item_rows = {}
       THEN [recognized |-> TRUE, reads |-> {}]
       ELSE IF c.item_list_ptr = 0
       THEN NotFollowed
       ELSE [recognized |-> c.read # "raises", reads |-> {c.item_list_ptr}]

DerefCalls ==
    [detector : {"battle"}, script_ptr : Pointers, read : {"raises", "yesnobox", "other"}]
    \cup [detector : {"playerPc"}, task : BOOLEAN, num : {0, 3, 9}, order_ptr : Pointers,
          read : {"raises", "bytes"}, labels : BOOLEAN]
    \cup [detector : {"shop"}, item_list_ptr : Pointers, shop_item_count : 0..MaxShopItems,
          scroll_offset : 0..MaxShopItems, items_showed : {8},
          read : {"raises", "bytes"}]

PointerOf(c) ==
    CASE c.detector = "battle" -> c.script_ptr
      [] c.detector = "playerPc" -> c.order_ptr
      [] OTHER -> c.item_list_ptr

DerefInit ==
    /\ derefCall \in DerefCalls
    /\ derefOut = [done |-> FALSE]
    /\ MetricsRest
    /\ BulkRest
    /\ MatchRest
    /\ ListRest
    /\ BattleRest
    /\ TextRest
    /\ ScanRest
    /\ BytesRest
    /\ FogRest
    /\ ChoiceRest
    /\ RangeRest
    /\ CoreRest

Followed(r) == [done |-> TRUE, recognized |-> r.recognized, reads |-> r.reads]

BattleScriptYesNo ==
    /\ ~ derefOut.done
    /\ derefCall.detector = "battle"
    /\ derefOut' = Followed(script_yes_no(derefCall))
    /\ UNCHANGED <<derefCall, derefFrame>>

PlayerPcMenuOrder ==
    /\ ~ derefOut.done
    /\ derefCall.detector = "playerPc"
    /\ derefOut' = Followed(player_pc_order(derefCall))
    /\ UNCHANGED <<derefCall, derefFrame>>

ShopBuyRows ==
    /\ ~ derefOut.done
    /\ derefCall.detector = "shop"
    /\ derefOut' = Followed(shop_buy_rows(derefCall))
    /\ UNCHANGED <<derefCall, derefFrame>>

DerefNext == BattleScriptYesNo \/ PlayerPcMenuOrder \/ ShopBuyRows

SpecDeref == DerefInit /\ [][DerefNext]_vars

(* the shop follows its pointer only when a row other than CANCEL is shown *)
NeedsPointer(c) == c.detector = "shop" => c.scroll_offset < c.shop_item_count

(* C25: no detector issues a read at a pointer that lies outside the valid *)
(* memory ranges, and a detector whose pointer is null or out of range     *)
(* reports "not recognized" without reading at the pointer.                *)
C25_PointerCheckedBeforeRead ==
    derefOut.done =>
        /\ \A p \in derefOut.reads : InMemoryRange(p)
        /\ (~ InMemoryRange(PointerOf(derefCall)) /\ NeedsPointer(derefCall))
               => (~ derefOut.recognized /\ derefOut.reads = {})


(***************************************************************************)
(* Choice menus: the records of get_yes_no_menu_state, of                  *)
(* get_player_pc_menu_state and of the battle menus.  The cursor of the    *)
(* first two is the signed byte sMenu.cursorPos.                           *)
(***************************************************************************)
CursorBytes == (0..MaxCursor) \cup {256 - 1}

s8_from_u8(val) == IF val > 127 THEN val - 256 ELSE val

ChoiceMenu(type, cursor, options, unknown) ==
    [type |-> type, cursorPosition |-> cursor,
     selectedOption |-> IF 0 <= cursor /\ cursor < Len(options)
                        THEN options[cursor + 1] ELSE unknown,
     options |-> options]

(* task: a yes/no task is active; window: the yes/no window is allocated,  *)
(* sMenu points at it and its cursor bounds are 0 and 1                    *)
get_yes_no_menu_state(c) ==
    IF ~ c.task /\ ~ c.window
    THEN NoBattleMenu
    ELSE ChoiceMenu("yesNo", s8_from_u8(c.cursor), <<"YES", "NO">>, "UNKNOWN")

(* get_player_pc_menu_state once the three labels were found *)
player_pc_menu(c) ==
    LET raw == s8_from_u8(c.cursor)
        cursor_pos == IF raw < 0 \/ raw >= Len(c.options) THEN 0 ELSE raw
    IN ChoiceMenu("playerPcMenu", cursor_pos, c.options, "UNKNOWN")

PcOptions ==
    {<<"ITEM STORAGE", "MAILBOX", "TURN OFF">>,
     <<"ITEM STORAGE", "MAILBOX", "DECORATION", "TURN OFF">>}

ChoiceCalls(k) ==
    CASE k = 5 -> [detector : {"yesNo"}, task : BOOLEAN, window : BOOLEAN,
                   cursor : CursorBytes]
      [] k = 6 -> [detector : {"playerPc"}, cursor : CursorBytes, options : PcOptions]
      [] OTHER -> {[detector |-> "battle", call |-> b] : b \in BattleCalls(k)}

ChoiceInit ==
    /\ \E k \in 0..6 : choiceCall \in ChoiceCalls(k)
    /\ choiceOut = [done |-> FALSE]
    /\ MetricsRest
    /\ BulkRest
    /\ MatchRest
    /\ ListRest
    /\ BattleRest
    /\ TextRest
    /\ ScanRest
    /\ BytesRest
    /\ FogRest
    /\ DerefRest
    /\ RangeRest
    /\ CoreRest

GetYesNoMenuState ==
    /\ ~ choiceOut.done
    /\ choiceCall.detector = "yesNo"
    /\ choiceOut' = [done |-> TRUE, menu |-> get_yes_no_menu_state(choiceCall)]
    /\ UNCHANGED <<choiceCall, choiceFrame>>

GetPlayerPcMenuState ==
    /\ ~ choiceOut.done
    /\ choiceCall.detector = "playerPc"
    /\ choiceOut' = [done |-> TRUE, menu |-> player_pc_menu(choiceCall)]
    /\ UNCHANGED <<choiceCall, choiceFrame>>

BattleChoiceMenu ==
    /\ ~ choiceOut.done
    /\ choiceCall.detector = "battle"
    /\ choiceOut' = [done |-> TRUE, menu |-> detect_battle_ui_state(choiceCall.call)]
    /\ UNCHANGED <<choiceCall, choiceFrame>>

ChoiceNext == GetYesNoMenuState \/ GetPlayerPcMenuState \/ BattleChoiceMenu

SpecChoice == ChoiceInit /\ [][ChoiceNext]_vars

(* C27: every choice-menu record a detector returns has a cursorPosition   *)
(* in [0, number of options) and a selectedOption equal to                 *)
(* options[cursorPosition], whatever the cursor register holds.            *)
C27_CursorSelectsAnOption ==
    (choiceOut.done /\ choiceOut.menu.type # "None") =>
        /\ 0 <= choiceOut.menu.cursorPosition
        /\ choiceOut.menu.cursorPosition < Len(choiceOut.menu.options)
        /\ choiceOut.menu.selectedOption
              = choiceOut.menu.options[choiceOut.menu.cursorPosition + 1]


(***************************************************************************)
(* mgba_read_range(addr, length), request by request.  The socket part     *)
(* asks for the whole range in one command (readRangeHex for one chunk,    *)
(* readRangesHex for the list of chunks) and repeats it in the CSV form    *)
(* when the bridge answers with the default or the error string; the HTTP  *)
(* part asks chunk by chunk and advances by the bytes it received.         *)
(***************************************************************************)
MaxRangeLen == 3    \* requested lengths 0..MaxRangeLen
MaxRequests == 4    \* HTTP requests followed in one call

RECURSIVE SumSeq(_)
SumSeq(s) == IF s = <<>> THEN 0 ELSE s[1] + SumSeq(Tail(s))

(* number of chunks of a read of `length` bytes *)
ChunkCount(length) ==
    IF length <= 0 THEN 0 ELSE (length + READ_RANGE_CHUNK - 1) \div READ_RANGE_CHUNK

RangeInit ==
    /\ rangeCall \in [length : 0..MaxRangeLen, transport : {"socket", "http"}]
    /\ rangeRun = [pc |-> "call", sock |-> 0, chunks |-> <<>>]
    /\ MetricsRest
    /\ BulkRest
    /\ MatchRest
    /\ ListRest
    /\ BattleRest
    /\ TextRest
    /\ ScanRest
    /\ BytesRest
    /\ FogRest
    /\ DerefRest
    /\ ChoiceRest
    /\ CoreRest

(* entry of mgba_read_range *)
MgbaReadRangeClient ==
    /\ rangeRun.pc = "call"
    /\ rangeRun' = [rangeRun EXCEPT !.pc =
                       IF rangeCall.length <= 0 THEN "returned"
                       ELSE IF rangeCall.transport # "http" THEN "socket"
                       ELSE "http"]
    /\ UNCHANGED <<rangeCall, rangeFrame>>

(* the socket part: "down" is a ConnectionError, which leads to HTTP *)
SocketRange ==
    /\ rangeRun.pc = "socket"
    /\ \E first \in {"data", "default", "error", "down"},
          second \in {"data", "default", "error", "down"} :
          rangeRun' =
             IF first = "data"
             THEN [rangeRun EXCEPT !.pc = "returned", !.sock = 1]
             ELSE IF first = "down"
             THEN [rangeRun EXCEPT !.pc = "http", !.sock = 1]
             ELSE [rangeRun EXCEPT !.sock = 2,
                                   !.pc = CASE second = "down" -> "http"
                                            [] second = "error" -> "raised"
                                            [] OTHER -> "returned"]
    /\ UNCHANGED <<rangeCall, rangeFrame>>

(* one pass of the HTTP loop: the request of the next chunk and its reply  *)
(* of n bytes, or an HTTP error                                            *)
HttpChunk ==
    /\ rangeRun.pc = "http"
    /\ SumSeq(rangeRun.chunks) < rangeCall.length
    /\ Len(rangeRun.chunks) < MaxRequests
    /\ LET read == SumSeq(rangeRun.chunks)
           chunk_len == IF READ_RANGE_CHUNK < rangeCall.length - read
                        THEN READ_RANGE_CHUNK ELSE rangeCall.length - read
       IN \E n \in -1..chunk_len :
             rangeRun' = IF n < 0
                         THEN [rangeRun EXCEPT !.pc = "raised",
                                               !.chunks = Append(@, 0)]
                         ELSE [rangeRun EXCEPT !.chunks = Append(@, n)]
    /\ UNCHANGED <<rangeCall, rangeFrame>>

HttpReturn ==
    /\ rangeRun.pc = "http"
    /\ SumSeq(rangeRun.chunks) >= rangeCall.length
    /\ rangeRun' = [rangeRun EXCEPT !.pc = "returned"]
    /\ UNCHANGED <<rangeCall, rangeFrame>>

RangeNext == MgbaReadRangeClient \/ SocketRange \/ HttpChunk \/ HttpReturn

SpecRange == RangeInit /\ [][RangeNext]_vars

(* C29: a ranged read issues at most one request per chunk of the          *)
(* requested length on each transport, whatever the remote end replies.    *)
C29_OneRequestPerChunk ==
    /\ rangeRun.sock <= ChunkCount(rangeCall.length)
    /\ Len(rangeRun.chunks) <= ChunkCount(rangeCall.length)

=============================================================================
